---- MODULE Spec2Model ----
(***************************************************************************)
(* Driving-school backend: the session registry, the enrollment ledger,    *)
(* user registration and the token / role gates of the request router.     *)
(*                                                                         *)
(* A collection of the document store is a set of documents.  A request    *)
(* is a record holding what the express req/res pair and the handler's     *)
(* local variables hold; every awaited store call of a handler is one      *)
(* atomic step, and the steps of different requests interleave freely.     *)
(***************************************************************************)
EXTENDS Integers, Sequences, FiniteSets, TLC

(* ------------------------------ bounds --------------------------------- *)
\* request slots that can be in flight at the same time
MaxReqs == 2
\* number of session identifiers the counter may mint
MaxSessions == 1
\* largest maxCount / currentCount a request body carries
MaxCap == 1
\* number of enrollment documents (ObjectIds) that may be constructed
MaxOid == 2
\* number of user accounts (uuids) that may be created
MaxUsers == 2
MaxVehicles == 1

ReqIds == 1..MaxReqs
UserIds == 1..MaxUsers
EmailOf(u) == <<"user", u, "@x">>
Emails == {EmailOf(u) : u \in UserIds}
VehicleIds == {"v1"}
\* the seeded document of a vehicle
VehicleOf(vehicleID) ==
    [vehicleID |-> vehicleID, vehicleNO |-> "CAB-0001", vehicleType |-> "car",
     transmissionType |-> "manual", fuelType |-> "petrol", availability |-> TRUE,
     studentCnt |-> 0]
Fleet == {VehicleOf(v) : v \in VehicleIds}
InstructorIds == {"i1"}

VARIABLES
    users,        \* User collection: documents [userID, email, isStudent]
    sessions,     \* PhysicalTraining collection
    enrollments,  \* EnrollPTS collection (the ledger)
    counter,      \* Counter document {name: 'sessionID'}.value (0: not yet upserted)
    vehicles,     \* Vehicle collection
    instructors,  \* Instructor collection (InstructorID of each document)
    nextOid,      \* next ObjectId the driver generates for a new EnrollPTS document
    nextUuid,     \* next value uuidv4() returns
    reqs          \* the requests in flight, one record per slot

store == <<users, sessions, enrollments, counter, vehicles, instructors, nextOid, nextUuid>>
vars == <<users, sessions, enrollments, counter, vehicles, instructors, nextOid, nextUuid, reqs>>

(* --------------------------- JavaScript values ------------------------- *)
\* null / undefined is the empty set, a present value v is {v}
Null == {}
Some(v) == {v}
The(s) == CHOOSE v \in s : TRUE

\* Model.findOne(filter), given the documents matching the filter: one of them,
\* or null when there is none
FindOne(hits) == IF hits = {} THEN {Null} ELSE {Some(d) : d \in hits}

(* ---------------------- session identifiers ---------------------------- *)
\* String(n): the decimal digits of n >= 0, most significant first
RECURSIVE DigitsOf(_)
DigitsOf(n) == IF n < 10 THEN <<n>> ELSE DigitsOf(n \div 10) \o <<n % 10>>

\* s.padStart(len, fill)
RECURSIVE PadStart(_, _, _)
PadStart(s, len, fill) == IF Len(s) >= len THEN s ELSE PadStart(<<fill>> \o s, len, fill)

\* the identifier without the padding: `PT${counter.value}`
SessionIdUnpadded(value) == <<"P", "T">> \o DigitsOf(value)

\* `PT${String(counter.value).padStart(4, '0')}`
SessionIdOf(value) == <<"P", "T">> \o PadStart(DigitsOf(value), 4, 0)

SessionIdInputs == {SessionIdOf(n) : n \in 1..MaxSessions}

(* ------------------------------ tokens --------------------------------- *)
JWT_SECRET == "JWT_SECRET"

\* a token payload: id, email and the role flags (a flag left out of the payload
\* reads as undefined, which is falsy: FALSE)
Payload(id, email, st, ad, ins) ==
    [id |-> id, email |-> email, isStudent |-> st, isAdmin |-> ad, isInstructor |-> ins]

\* a token: the key it was signed with, whether its exp has passed, its payload
Token(key, expired, payload) == [key |-> key, expired |-> expired, payload |-> payload]

\* jwt.sign(payload, JWT_SECRET, { expiresIn: JWT_EXPIRES_IN })
JwtSign(payload) == Token(JWT_SECRET, FALSE, payload)

StudentToken(u) == JwtSign(Payload(u, EmailOf(1), TRUE, FALSE, FALSE))
AdminToken == JwtSign(Payload(1, EmailOf(1), FALSE, TRUE, FALSE))
InstructorToken == JwtSign(Payload(1, EmailOf(1), FALSE, FALSE, TRUE))
PlainToken == JwtSign(Payload(1, EmailOf(1), FALSE, FALSE, FALSE))
ExpiredToken == Token(JWT_SECRET, TRUE, Payload(1, EmailOf(1), TRUE, TRUE, TRUE))
ForgedToken == Token("forged", FALSE, Payload(1, EmailOf(1), TRUE, TRUE, TRUE))

Tokens ==
    {StudentToken(u) : u \in UserIds}
    \cup {AdminToken, InstructorToken, PlainToken, ExpiredToken, ForgedToken}

\* jwt.decode in place of jwt.verify: the payload, whatever the key and the expiry
JwtDecodeOnly(token) == Some(token.payload)

\* jwt.verify(token, JWT_SECRET): the payload, or nothing when it throws
JwtVerify(token) ==
    IF token.key = JWT_SECRET /\ ~token.expired THEN Some(token.payload) ELSE Null

(* ------------------------------ requests ------------------------------- *)
\* res before the handler answered; token: the token a response carries, if any
NoRes == [status |-> 0, message |-> "", token |-> Null]

\* a free slot: no request
IdleReq ==
    [pc |-> "idle", route |-> "", cookie |-> Null, authorization |-> Null,
     user |-> Null, params |-> <<>>, body |-> <<>>,
     session |-> Null, enrollment |-> Null, newUser |-> Null, vehicle |-> Null,
     res |-> NoRes]

Has(obj, key) == key \in DOMAIN obj
\* !obj.key for a string field of a JSON body: undefined and '' are falsy
Falsy(obj, key) == ~Has(obj, key) \/ obj[key] = ""
\* !obj.key for a numeric field of a JSON body: undefined and 0 are falsy
FalsyNum(obj, key) == ~Has(obj, key) \/ obj[key] = 0

\* return res.status(code).json({success, message}): the handler is over and
\* its local variables are gone
Respond(req, code, message) ==
    [req EXCEPT !.pc = "done", !.session = Null, !.enrollment = Null, !.newUser = Null,
                !.vehicle = Null,
                !.res = [status |-> code, message |-> message, token |-> Null]]

\* the handler suspends on the awaited store call named pc
Await(req, pc) == [req EXCEPT !.pc = pc]

(* ----------------------------- middleware ------------------------------ *)
\* authenticate: req.cookies.token || req.headers.authorization?.split(' ')[1]
\* (the header is held as its space-separated parts)
TokenOf(req) ==
    IF req.cookie # Null THEN req.cookie
    ELSE IF req.authorization # Null /\ Len(The(req.authorization)) >= 2
    THEN Some(The(req.authorization)[2])
    ELSE Null

\* authenticate: the request after it, with res set when it answered itself
authenticate(req) ==
    LET token == TokenOf(req) IN
    IF token = Null
    THEN Respond(req, 401, "Authentication required. Please login.")
    ELSE LET decoded == JwtVerify(The(token)) IN
         IF decoded = Null
         THEN Respond(req, 403, "Invalid or expired token. Please login again.")
         ELSE [req EXCEPT !.user = decoded]

isInstructor(req) ==
    IF req.user # Null /\ The(req.user).isInstructor THEN req
    ELSE Respond(req, 403, "Access denied. Instructor role required.")

isStudent(req) ==
    IF req.user # Null /\ The(req.user).isStudent THEN req
    ELSE Respond(req, 403, "Access denied. Student role required.")

\* isAdmin letting every authenticated request through
isAdminAnyUser(req) == req

isAdmin(req) ==
    IF req.user # Null /\ The(req.user).isAdmin THEN req
    ELSE Respond(req, 403, "Access denied. Administrator role required.")

\* the middleware a route mounts before its handler, in order
Gates(route) ==
    CASE route = "enrollStudent"          -> <<"authenticate", "isStudent">>
      [] route = "getAllEnrollments"      -> <<"authenticate", "isAdmin">>
      [] route = "getEnrollmentStats"     -> <<"authenticate", "isAdmin">>
      [] route = "cancelEnrollment"       -> <<"authenticate">>
      [] route = "updateEnrollmentStatus" -> <<"authenticate">>
      [] route = "createPhysicalTraining" -> <<"authenticate">>
      [] route = "updatePhysicalTraining" -> <<"authenticate">>
      [] route = "deletePhysicalTraining" -> <<"authenticate", "isAdmin">>
      [] route = "updateSessionStatus"    -> <<"authenticate", "isInstructor">>
      [] route = "register"               -> <<>>
      [] route = "login"                  -> <<>>
      [] route = "createVehicle"          -> <<"authenticate">>
      [] route = "updateVehicle"          -> <<"authenticate">>
      [] route = "deleteVehicle"          -> <<"authenticate">>

ApplyGate(gate, req) ==
    CASE gate = "authenticate" -> authenticate(req)
      [] gate = "isStudent"    -> isStudent(req)
      [] gate = "isAdmin"      -> isAdmin(req)
      [] gate = "isInstructor" -> isInstructor(req)

\* express runs the chain until a middleware answers instead of calling next()
RECURSIVE RunGates(_, _)
RunGates(gates, req) ==
    IF gates = <<>> \/ req.pc = "done" THEN req
    ELSE RunGates(Tail(gates), ApplyGate(Head(gates), req))

(* ------------------------- store primitives ---------------------------- *)
\* PhysicalTraining.findOneAndUpdate({sessionID}, {$inc: {currentCount: by}})
IncCurrentCount(coll, sessionID, by) ==
    {IF d.sessionID = sessionID THEN [d EXCEPT !.currentCount = @ + by] ELSE d : d \in coll}

\* PhysicalTraining.findOne({ sessionID })
FindSession(sessionID) == FindOne({d \in sessions : d.sessionID = sessionID})

(* ============================ enrollStudent ============================ *)
\* lines 12-24: the body is validated, then User.findOne is awaited
enrollStudent(req) ==
    IF ~Has(req.body, "sessionID")
    THEN Respond(req, 400, "Session ID is required")
    ELSE Await(req, "enrollStudent:User.findOne")

\* lines 24-33
EnrollUserFound(req, user) ==
    IF user = Null
    THEN Respond(req, 404, "User not found")
    ELSE Await(req, "enrollStudent:PhysicalTraining.findOne")

\* EnrollSessionFound with the status test left out
EnrollSessionFoundAnyStatus(req, session) ==
    IF session = Null
    THEN Respond(req, 404, "Physical training session not found")
    ELSE IF The(session).currentCount >= The(session).maxCount
    THEN Respond(req, 400, "Session is full")
    ELSE Await([req EXCEPT !.session = session], "enrollStudent:EnrollPTS.findOne")

\* EnrollSessionFound with the capacity test left out
EnrollSessionFoundAnyCount(req, session) ==
    IF session = Null
    THEN Respond(req, 404, "Physical training session not found")
    ELSE IF The(session).status # "pending"
    THEN Respond(req, 400, "Cannot enroll in a completed session")
    ELSE Await([req EXCEPT !.session = session], "enrollStudent:EnrollPTS.findOne")

\* EnrollSessionFound with the capacity test off by one (> for >=)
EnrollSessionFoundOffByOne(req, session) ==
    IF session = Null
    THEN Respond(req, 404, "Physical training session not found")
    ELSE IF The(session).status # "pending"
    THEN Respond(req, 400, "Cannot enroll in a completed session")
    ELSE IF The(session).currentCount > The(session).maxCount
    THEN Respond(req, 400, "Session is full")
    ELSE Await([req EXCEPT !.session = session], "enrollStudent:EnrollPTS.findOne")

\* lines 33-58: the checks made on the session that was read
EnrollSessionFound(req, session) ==
    IF session = Null
    THEN Respond(req, 404, "Physical training session not found")
    ELSE IF The(session).status # "pending"
    THEN Respond(req, 400, "Cannot enroll in a completed session")
    ELSE IF The(session).currentCount >= The(session).maxCount
    THEN Respond(req, 400, "Session is full")
    ELSE Await([req EXCEPT !.session = session], "enrollStudent:EnrollPTS.findOne")

\* EnrollExistingFound with the duplicate test left out
EnrollExistingFoundAnyway(req, existingEnrollment, oid) ==
    Await([req EXCEPT !.enrollment =
               Some([_id |-> oid, userID |-> The(req.user).id,
                     sessionID |-> req.body.sessionID, status |-> "pending"])],
          "enrollStudent:enrollment.save")

\* lines 58-74: the duplicate check, then the new document is constructed
EnrollExistingFound(req, existingEnrollment, oid) ==
    IF existingEnrollment # Null
    THEN Respond(req, 400, "You are already enrolled in this session")
    ELSE Await([req EXCEPT !.enrollment =
                    Some([_id |-> oid, userID |-> The(req.user).id,
                          sessionID |-> req.body.sessionID, status |-> "pending"])],
               "enrollStudent:enrollment.save")

EnrollFindUser(r) ==
    /\ reqs[r].pc = "enrollStudent:User.findOne"
    /\ \E user \in FindOne({d \in users : d.userID = The(reqs[r].user).id}) :
          reqs' = [reqs EXCEPT ![r] = EnrollUserFound(@, user)]
    /\ UNCHANGED store

EnrollFindSession(r) ==
    /\ reqs[r].pc = "enrollStudent:PhysicalTraining.findOne"
    /\ \E session \in FindSession(reqs[r].body.sessionID) :
          reqs' = [reqs EXCEPT ![r] = EnrollSessionFound(@, session)]
    /\ UNCHANGED store

EnrollFindExisting(r) ==
    /\ reqs[r].pc = "enrollStudent:EnrollPTS.findOne"
    /\ \E existing \in FindOne({d \in enrollments :
                                  /\ d.userID = The(reqs[r].user).id
                                  /\ d.sessionID = reqs[r].body.sessionID}) :
          /\ reqs' = [reqs EXCEPT ![r] = EnrollExistingFound(@, existing, nextOid)]
          /\ nextOid' = IF existing = Null THEN nextOid + 1 ELSE nextOid
    /\ UNCHANGED <<users, sessions, enrollments, counter, vehicles, instructors, nextUuid>>

\* line 74: await enrollment.save()
EnrollSave(r) ==
    /\ reqs[r].pc = "enrollStudent:enrollment.save"
    /\ enrollments' = enrollments \cup reqs[r].enrollment
    /\ reqs' = [reqs EXCEPT ![r] = Await(@, "enrollStudent:PhysicalTraining.findOneAndUpdate")]
    /\ UNCHANGED <<users, sessions, counter, vehicles, instructors, nextOid, nextUuid>>

\* lines 77-86: $inc currentCount, then 201
EnrollIncrement(r) ==
    /\ reqs[r].pc = "enrollStudent:PhysicalTraining.findOneAndUpdate"
    /\ sessions' = IncCurrentCount(sessions, reqs[r].body.sessionID, 1)
    /\ reqs' = [reqs EXCEPT ![r] =
                   Respond(@, 201, "Successfully enrolled in physical training session")]
    /\ UNCHANGED <<users, enrollments, counter, vehicles, instructors, nextOid, nextUuid>>

(* =========================== cancelEnrollment ========================== *)
\* lines 253-255
cancelEnrollment(req) == Await(req, "cancelEnrollment:EnrollPTS.findById")

\* CancelEnrollmentFound with the owner-or-admin test left out
CancelEnrollmentFoundAnyCaller(req, enrollment) ==
    IF enrollment = Null
    THEN Respond(req, 404, "Enrollment not found")
    ELSE Await([req EXCEPT !.enrollment = enrollment], "cancelEnrollment:PhysicalTraining.findOne")

\* lines 255-272: not found, or neither the enrolled student nor an admin
CancelEnrollmentFound(req, enrollment) ==
    IF enrollment = Null
    THEN Respond(req, 404, "Enrollment not found")
    ELSE IF The(req.user).id # The(enrollment).userID /\ ~The(req.user).isAdmin
    THEN Respond(req, 403, "Access denied")
    ELSE Await([req EXCEPT !.enrollment = enrollment], "cancelEnrollment:PhysicalTraining.findOne")

\* lines 272-280
CancelSessionFound(req, session) ==
    IF session # Null /\ The(session).status = "completed"
    THEN Respond(req, 400, "Cannot cancel enrollment for a completed session")
    ELSE Await([req EXCEPT !.session = session], "cancelEnrollment:EnrollPTS.findByIdAndDelete")

\* CancelDeleted answering at once, the counter update left out
CancelDeletedNoDecrement(req) == Respond(req, 200, "Enrollment canceled successfully")

\* lines 280-293: after the delete, the counter update only if the session was read
CancelDeleted(req) ==
    IF req.session # Null
    THEN Await(req, "cancelEnrollment:PhysicalTraining.findOneAndUpdate")
    ELSE Respond(req, 200, "Enrollment canceled successfully")

CancelFindEnrollment(r) ==
    /\ reqs[r].pc = "cancelEnrollment:EnrollPTS.findById"
    /\ \E enrollment \in FindOne({d \in enrollments : d._id = reqs[r].params.id}) :
          reqs' = [reqs EXCEPT ![r] = CancelEnrollmentFound(@, enrollment)]
    /\ UNCHANGED store

CancelFindSession(r) ==
    /\ reqs[r].pc = "cancelEnrollment:PhysicalTraining.findOne"
    /\ \E session \in FindSession(The(reqs[r].enrollment).sessionID) :
          reqs' = [reqs EXCEPT ![r] = CancelSessionFound(@, session)]
    /\ UNCHANGED store

CancelDelete(r) ==
    /\ reqs[r].pc = "cancelEnrollment:EnrollPTS.findByIdAndDelete"
    /\ enrollments' = {d \in enrollments : d._id # reqs[r].params.id}
    /\ reqs' = [reqs EXCEPT ![r] = CancelDeleted(@)]
    /\ UNCHANGED <<users, sessions, counter, vehicles, instructors, nextOid, nextUuid>>

CancelDecrement(r) ==
    /\ reqs[r].pc = "cancelEnrollment:PhysicalTraining.findOneAndUpdate"
    /\ sessions' = IncCurrentCount(sessions, The(reqs[r].enrollment).sessionID, -1)
    /\ reqs' = [reqs EXCEPT ![r] = Respond(@, 200, "Enrollment canceled successfully")]
    /\ UNCHANGED <<users, enrollments, counter, vehicles, instructors, nextOid, nextUuid>>

(* ======================= createPhysicalTraining ======================== *)
\* lines 25-44: every required field must be truthy
createPhysicalTraining(req) ==
    IF \/ Falsy(req.body, "date") \/ Falsy(req.body, "time") \/ Falsy(req.body, "location")
       \/ Falsy(req.body, "vehicleID") \/ Falsy(req.body, "instructorID")
       \/ FalsyNum(req.body, "maxCount")
    THEN Respond(req, 400, "All required fields must be provided")
    ELSE Await(req, "createPhysicalTraining:Vehicle.findOne")

\* lines 44-53
CreateVehicleFound(req, vehicle) ==
    IF vehicle = Null
    THEN Respond(req, 404, "Vehicle not found")
    ELSE Await(req, "createPhysicalTraining:Instructor.findOne")

\* lines 53-62
CreateInstructorFound(req, instructor) ==
    IF instructor = Null
    THEN Respond(req, 404, "Instructor not found")
    ELSE Await(req, "createPhysicalTraining:Counter.findOneAndUpdate")

\* lines 9-16 and 62-78: the identifier is minted and the document constructed
NewSession(req, value) ==
    [sessionID |-> SessionIdOf(value), vehicleID |-> req.body.vehicleID,
     instructorID |-> req.body.instructorID, maxCount |-> req.body.maxCount,
     currentCount |-> 0, status |-> "pending"]

CreateFindVehicle(r) ==
    /\ reqs[r].pc = "createPhysicalTraining:Vehicle.findOne"
    /\ \E vehicle \in FindOne({d \in vehicles : d.vehicleID = reqs[r].body.vehicleID}) :
          reqs' = [reqs EXCEPT ![r] = CreateVehicleFound(@, vehicle)]
    /\ UNCHANGED store

CreateFindInstructor(r) ==
    /\ reqs[r].pc = "createPhysicalTraining:Instructor.findOne"
    /\ \E instructor \in FindOne({d \in instructors : d = reqs[r].body.instructorID}) :
          reqs' = [reqs EXCEPT ![r] = CreateInstructorFound(@, instructor)]
    /\ UNCHANGED store

\* GetNextSequenceValue with the increment not written back: the value is read
\* and one is added, but the stored counter keeps its value
GetNextSequenceValueNotStored(r) ==
    /\ reqs[r].pc = "createPhysicalTraining:Counter.findOneAndUpdate"
    /\ counter' = counter
    /\ reqs' = [reqs EXCEPT ![r] =
                   Await([@ EXCEPT !.session = Some(NewSession(reqs[r], counter + 1))],
                         "createPhysicalTraining:newSession.save")]
    /\ UNCHANGED <<users, sessions, enrollments, vehicles, instructors, nextOid, nextUuid>>

\* getNextSequenceValue: Counter.findOneAndUpdate($inc value, new, upsert)
GetNextSequenceValue(r) ==
    /\ reqs[r].pc = "createPhysicalTraining:Counter.findOneAndUpdate"
    /\ counter' = counter + 1
    /\ reqs' = [reqs EXCEPT ![r] =
                   Await([@ EXCEPT !.session = Some(NewSession(reqs[r], counter + 1))],
                         "createPhysicalTraining:newSession.save")]
    /\ UNCHANGED <<users, sessions, enrollments, vehicles, instructors, nextOid, nextUuid>>

\* lines 78-84
CreateSave(r) ==
    /\ reqs[r].pc = "createPhysicalTraining:newSession.save"
    /\ sessions' = sessions \cup reqs[r].session
    /\ reqs' = [reqs EXCEPT ![r] =
                   Respond(@, 201, "Physical training session created successfully")]
    /\ UNCHANGED <<users, enrollments, counter, vehicles, instructors, nextOid, nextUuid>>

(* ======================= updatePhysicalTraining ======================== *)
\* lines 171-181: at least one field must be supplied
updatePhysicalTraining(req) ==
    IF /\ Falsy(req.body, "date") /\ Falsy(req.body, "time") /\ Falsy(req.body, "location")
       /\ Falsy(req.body, "vehicleID") /\ Falsy(req.body, "instructorID")
       /\ ~Has(req.body, "maxCount") /\ Falsy(req.body, "status")
       /\ ~Has(req.body, "currentCount") /\ Falsy(req.body, "instructorQualification")
    THEN Respond(req, 400, "At least one field is required to update")
    ELSE Await(req, "updatePhysicalTraining:PhysicalTraining.findOne")

\* UpdateValidate with the currentCount test left out
UpdateValidateStatusOnly(req) ==
    IF ~Falsy(req.body, "status") /\ req.body.status \notin {"pending", "completed"}
    THEN Respond(req, 400, "Status must be either \"pending\" or \"completed\"")
    ELSE Await(req, "updatePhysicalTraining:PhysicalTraining.findOneAndUpdate")

\* lines 210-241: the status and currentCount checks, made once the references resolved
UpdateValidate(req) ==
    IF ~Falsy(req.body, "status") /\ req.body.status \notin {"pending", "completed"}
    THEN Respond(req, 400, "Status must be either \"pending\" or \"completed\"")
    ELSE IF /\ Has(req.body, "currentCount")
            /\ req.body.currentCount >
                 (IF Has(req.body, "maxCount") THEN req.body.maxCount
                  ELSE The(req.session).maxCount)
    THEN Respond(req, 400, "Current count cannot exceed max count")
    ELSE Await(req, "updatePhysicalTraining:PhysicalTraining.findOneAndUpdate")

\* lines 200-210: the instructor reference, when one is supplied
UpdateCheckInstructor(req) ==
    IF ~Falsy(req.body, "instructorID")
    THEN Await(req, "updatePhysicalTraining:Instructor.findOne")
    ELSE UpdateValidate(req)

\* lines 181-200: the session must exist; then the vehicle reference, when supplied
UpdateSessionFound(req, existingSession) ==
    IF existingSession = Null
    THEN Respond(req, 404, "Physical training session not found")
    ELSE LET found == [req EXCEPT !.session = existingSession] IN
         IF ~Falsy(req.body, "vehicleID")
         THEN Await(found, "updatePhysicalTraining:Vehicle.findOne")
         ELSE UpdateCheckInstructor(found)

UpdateVehicleFound(req, vehicle) ==
    IF vehicle = Null THEN Respond(req, 404, "Vehicle not found")
    ELSE UpdateCheckInstructor(req)

UpdateInstructorFound(req, instructor) ==
    IF instructor = Null THEN Respond(req, 404, "Instructor not found")
    ELSE UpdateValidate(req)

\* lines 230-239: updateData, applied to a stored document
ApplyUpdateData(d, body) ==
    [d EXCEPT
       !.vehicleID = IF ~Falsy(body, "vehicleID") THEN body.vehicleID ELSE @,
       !.instructorID = IF ~Falsy(body, "instructorID") THEN body.instructorID ELSE @,
       !.maxCount = IF Has(body, "maxCount") THEN body.maxCount ELSE @,
       !.status = IF ~Falsy(body, "status") THEN body.status ELSE @,
       !.currentCount = IF Has(body, "currentCount") THEN body.currentCount ELSE @]

UpdateFindSession(r) ==
    /\ reqs[r].pc = "updatePhysicalTraining:PhysicalTraining.findOne"
    /\ \E existing \in FindSession(reqs[r].params.id) :
          reqs' = [reqs EXCEPT ![r] = UpdateSessionFound(@, existing)]
    /\ UNCHANGED store

UpdateFindVehicle(r) ==
    /\ reqs[r].pc = "updatePhysicalTraining:Vehicle.findOne"
    /\ \E vehicle \in FindOne({d \in vehicles : d.vehicleID = reqs[r].body.vehicleID}) :
          reqs' = [reqs EXCEPT ![r] = UpdateVehicleFound(@, vehicle)]
    /\ UNCHANGED store

UpdateFindInstructor(r) ==
    /\ reqs[r].pc = "updatePhysicalTraining:Instructor.findOne"
    /\ \E instructor \in FindOne({d \in instructors : d = reqs[r].body.instructorID}) :
          reqs' = [reqs EXCEPT ![r] = UpdateInstructorFound(@, instructor)]
    /\ UNCHANGED store

\* lines 241-251: PhysicalTraining.findOneAndUpdate({ sessionID }, updateData)
UpdateWrite(r) ==
    /\ reqs[r].pc = "updatePhysicalTraining:PhysicalTraining.findOneAndUpdate"
    /\ sessions' = {IF d.sessionID = reqs[r].params.id
                    THEN ApplyUpdateData(d, reqs[r].body) ELSE d : d \in sessions}
    /\ reqs' = [reqs EXCEPT ![r] =
                   Respond(@, 200, "Physical training session updated successfully")]
    /\ UNCHANGED <<users, enrollments, counter, vehicles, instructors, nextOid, nextUuid>>

(* ========================= updateSessionStatus ========================= *)
\* lines 409-419
updateSessionStatus(req) ==
    IF Falsy(req.body, "status") \/ req.body.status \notin {"pending", "completed"}
    THEN Respond(req, 400, "Valid status (pending/completed) is required")
    ELSE Await(req, "updateSessionStatus:PhysicalTraining.findOne")

\* lines 419-427
StatusSessionFound(req, session) ==
    IF session = Null
    THEN Respond(req, 404, "Physical training session not found")
    ELSE Await([req EXCEPT !.session = session],
               "updateSessionStatus:PhysicalTraining.findOneAndUpdate")

StatusFindSession(r) ==
    /\ reqs[r].pc = "updateSessionStatus:PhysicalTraining.findOne"
    /\ \E session \in FindSession(reqs[r].params.id) :
          reqs' = [reqs EXCEPT ![r] = StatusSessionFound(@, session)]
    /\ UNCHANGED store

\* lines 427-437
StatusWrite(r) ==
    /\ reqs[r].pc = "updateSessionStatus:PhysicalTraining.findOneAndUpdate"
    /\ sessions' = {IF d.sessionID = reqs[r].params.id
                    THEN [d EXCEPT !.status = reqs[r].body.status] ELSE d : d \in sessions}
    /\ reqs' = [reqs EXCEPT ![r] =
                   Respond(@, 200, IF reqs[r].body.status = "pending"
                                   THEN "Session status updated to \"pending\""
                                   ELSE "Session status updated to \"completed\"")]
    /\ UNCHANGED <<users, enrollments, counter, vehicles, instructors, nextOid, nextUuid>>

(* ======================= deletePhysicalTraining ======================== *)
\* lines 269-272
deletePhysicalTraining(req) == Await(req, "deletePhysicalTraining:PhysicalTraining.findOne")

\* DeleteSessionFound with the enrolled-users test left out
DeleteSessionFoundAnyCount(req, session) ==
    IF session = Null
    THEN Respond(req, 404, "Physical training session not found")
    ELSE Await([req EXCEPT !.session = session],
               "deletePhysicalTraining:PhysicalTraining.findOneAndDelete")

\* lines 272-289: the session must exist and have no enrolled users
DeleteSessionFound(req, session) ==
    IF session = Null
    THEN Respond(req, 404, "Physical training session not found")
    ELSE IF The(session).currentCount > 0
    THEN Respond(req, 400, "Cannot delete session with enrolled users")
    ELSE Await([req EXCEPT !.session = session],
               "deletePhysicalTraining:PhysicalTraining.findOneAndDelete")

DeleteFindSession(r) ==
    /\ reqs[r].pc = "deletePhysicalTraining:PhysicalTraining.findOne"
    /\ \E session \in FindSession(reqs[r].params.id) :
          reqs' = [reqs EXCEPT ![r] = DeleteSessionFound(@, session)]
    /\ UNCHANGED store

\* lines 289-294
DeleteRemove(r) ==
    /\ reqs[r].pc = "deletePhysicalTraining:PhysicalTraining.findOneAndDelete"
    /\ sessions' = {d \in sessions : d.sessionID # reqs[r].params.id}
    /\ reqs' = [reqs EXCEPT ![r] =
                   Respond(@, 200, "Physical training session deleted successfully")]
    /\ UNCHANGED <<users, enrollments, counter, vehicles, instructors, nextOid, nextUuid>>

(* ============================== register =============================== *)
\* part_003 lines 13-16 (the body's other fields, the password among them, are
\* supplied and play no part here)
register(req) == Await(req, "register:User.findOne")

\* RegisterExistingFound with the email pre-check left out
RegisterExistingFoundAnyway(req, existingUser, uuid) ==
    Await([req EXCEPT !.newUser =
               Some([userID |-> uuid, email |-> req.body.email,
                     isStudent |-> IF Has(req.body, "isStudent")
                                   THEN req.body.isStudent ELSE TRUE])],
          "register:newUser.save")

\* part_003 lines 16-46: the email pre-check, then the new document is constructed
RegisterExistingFound(req, existingUser, uuid) ==
    IF existingUser # Null
    THEN Respond(req, 400, "User with this email or username already exists")
    ELSE Await([req EXCEPT !.newUser =
                    Some([userID |-> uuid, email |-> req.body.email,
                          isStudent |-> IF Has(req.body, "isStudent")
                                        THEN req.body.isStudent ELSE TRUE])],
               "register:newUser.save")

\* part_003 lines 48-71: the token of the 201 response
RegisterToken(newUser) ==
    JwtSign(Payload(newUser.userID, newUser.email, FALSE, FALSE, FALSE))

RegisterFindUser(r) ==
    /\ reqs[r].pc = "register:User.findOne"
    /\ \E existing \in FindOne({d \in users : d.email = reqs[r].body.email}) :
          /\ reqs' = [reqs EXCEPT ![r] = RegisterExistingFound(@, existing, nextUuid)]
          /\ nextUuid' = IF existing = Null THEN nextUuid + 1 ELSE nextUuid
    /\ UNCHANGED <<users, sessions, enrollments, counter, vehicles, instructors, nextOid>>

RegisterSave(r) ==
    /\ reqs[r].pc = "register:newUser.save"
    /\ users' = users \cup reqs[r].newUser
    /\ reqs' = [reqs EXCEPT ![r] =
                   [Respond(@, 201, "User registered successfully")
                      EXCEPT !.res.token = Some(RegisterToken(The(reqs[r].newUser)))]]
    /\ UNCHANGED <<sessions, enrollments, counter, vehicles, instructors, nextOid, nextUuid>>

(* =============================== login ================================ *)
\* the password every account of the model was registered with: bcrypt.compare
\* of a password with the stored hash is true for this password only
RegisteredPassword == "secret"

\* part_003 lines 85-96: email and password are required
login(req) ==
    IF ~Has(req.body, "email") \/ Falsy(req.body, "password")
    THEN Respond(req, 400, "Email and password are required")
    ELSE Await(req, "login:User.findOne")

\* part_003 lines 96-105 (the handler's local user is held in the newUser field)
LoginUserFound(req, user) ==
    IF user = Null
    THEN Respond(req, 401, "Invalid credentials")
    ELSE Await([req EXCEPT !.newUser = user], "login:bcrypt.compare")

\* part_003 lines 113-118: the token of the 200 response
LoginToken(user) == JwtSign(Payload(user.userID, user.email, FALSE, FALSE, FALSE))

\* part_003 lines 105-135
LoginCompared(req, isMatch) ==
    IF ~isMatch
    THEN Respond(req, 401, "Invalid credentials")
    ELSE [Respond(req, 200, "Login successful")
            EXCEPT !.res.token = Some(LoginToken(The(req.newUser)))]

LoginFindUser(r) ==
    /\ reqs[r].pc = "login:User.findOne"
    /\ \E user \in FindOne({d \in users : d.email = reqs[r].body.email}) :
          reqs' = [reqs EXCEPT ![r] = LoginUserFound(@, user)]
    /\ UNCHANGED store

LoginCompare(r) ==
    /\ reqs[r].pc = "login:bcrypt.compare"
    /\ reqs' = [reqs EXCEPT ![r] =
                   LoginCompared(@, reqs[r].body.password = RegisteredPassword)]
    /\ UNCHANGED store

(* ======================== updateEnrollmentStatus ======================= *)
\* updateEnrollmentStatus accepting every non-empty status
updateEnrollmentStatusAnyStatus(req) ==
    IF Falsy(req.body, "status")
    THEN Respond(req, 400, "Valid status (pending/completed/absent) is required")
    ELSE Await(req, "updateEnrollmentStatus:EnrollPTS.findById")

\* lines 208-220
updateEnrollmentStatus(req) ==
    IF Falsy(req.body, "status") \/ req.body.status \notin {"pending", "completed", "absent"}
    THEN Respond(req, 400, "Valid status (pending/completed/absent) is required")
    ELSE Await(req, "updateEnrollmentStatus:EnrollPTS.findById")

\* lines 220-229: not found, or the document is kept with its status assigned
EnrollmentStatusFound(req, enrollment) ==
    IF enrollment = Null
    THEN Respond(req, 404, "Enrollment not found")
    ELSE Await([req EXCEPT !.enrollment = Some([The(enrollment) EXCEPT
                                                   !.status = req.body.status])],
               "updateEnrollmentStatus:enrollment.save")

\* line 233: `Enrollment status updated to "${status}"`
EnrollmentStatusMessage(status) ==
    CASE status = "pending"   -> "Enrollment status updated to \"pending\""
      [] status = "completed" -> "Enrollment status updated to \"completed\""
      [] status = "absent"    -> "Enrollment status updated to \"absent\""

EnrollStatusFind(r) ==
    /\ reqs[r].pc = "updateEnrollmentStatus:EnrollPTS.findById"
    /\ \E enrollment \in FindOne({d \in enrollments : d._id = reqs[r].params.id}) :
          reqs' = [reqs EXCEPT ![r] = EnrollmentStatusFound(@, enrollment)]
    /\ UNCHANGED store

\* lines 229-243: save() writes the assigned status to the document with this
\* _id. When that document has been removed meanwhile nothing is written, and
\* save() either resolves or rejects (the catch block answers 500), depending
\* on the mongoose release
EnrollStatusSave(r) ==
    /\ reqs[r].pc = "updateEnrollmentStatus:enrollment.save"
    /\ enrollments' = {IF d._id = The(reqs[r].enrollment)._id
                       THEN [d EXCEPT !.status = The(reqs[r].enrollment).status]
                       ELSE d : d \in enrollments}
    /\ \E saved \in IF \E d \in enrollments : d._id = The(reqs[r].enrollment)._id
                    THEN {TRUE} ELSE BOOLEAN :
          reqs' = [reqs EXCEPT ![r] =
                      IF saved
                      THEN Respond(@, 200, EnrollmentStatusMessage(reqs[r].body.status))
                      ELSE Respond(@, 500, "Failed to update enrollment status")]
    /\ UNCHANGED <<users, sessions, counter, vehicles, instructors, nextOid, nextUuid>>

(* ============================ createVehicle ============================ *)
\* uuidv4() for a vehicle: the n-th identifier handed out
VehicleIdOf(n) ==
    CASE n = 1 -> "uuid-1" [] n = 2 -> "uuid-2" [] n = 3 -> "uuid-3" [] OTHER -> "uuid-4"

\* lines 268-279: the four strings truthy, availability and studentCnt defined
createVehicle(req) ==
    IF \/ Falsy(req.body, "vehicleNO") \/ Falsy(req.body, "vehicleType")
       \/ Falsy(req.body, "transmissionType") \/ Falsy(req.body, "fuelType")
       \/ ~Has(req.body, "availability") \/ ~Has(req.body, "studentCnt")
    THEN Respond(req, 400, "All fields are required")
    ELSE Await(req, "createVehicle:Vehicle.findOne")

\* lines 281-298: a vehicle with this number exists, or the new document
CreateVehicleNumberFound(req, existingVehicle, uuid) ==
    IF existingVehicle # Null
    THEN Respond(req, 400, "Vehicle with this number already exists")
    ELSE Await([req EXCEPT !.vehicle =
                   Some([vehicleID |-> VehicleIdOf(uuid),
                         vehicleNO |-> req.body.vehicleNO,
                         vehicleType |-> req.body.vehicleType,
                         transmissionType |-> req.body.transmissionType,
                         fuelType |-> req.body.fuelType,
                         availability |-> req.body.availability,
                         studentCnt |-> req.body.studentCnt])],
               "createVehicle:newVehicle.save")

VehicleCreateFind(r) ==
    /\ reqs[r].pc = "createVehicle:Vehicle.findOne"
    /\ \E existingVehicle \in
             FindOne({d \in vehicles : d.vehicleNO = reqs[r].body.vehicleNO}) :
          /\ reqs' = [reqs EXCEPT ![r] = CreateVehicleNumberFound(@, existingVehicle, nextUuid)]
          /\ nextUuid' = IF existingVehicle = Null THEN nextUuid + 1 ELSE nextUuid
    /\ UNCHANGED <<users, sessions, enrollments, counter, vehicles, instructors, nextOid>>

\* lines 300-306
VehicleCreateSave(r) ==
    /\ reqs[r].pc = "createVehicle:newVehicle.save"
    /\ vehicles' = vehicles \cup reqs[r].vehicle
    /\ reqs' = [reqs EXCEPT ![r] = Respond(@, 201, "Vehicle created successfully")]
    /\ UNCHANGED <<users, sessions, enrollments, counter, instructors, nextOid, nextUuid>>

(* ============================ updateVehicle ============================ *)
\* lines 378-389: at least one field supplied
updateVehicle(req) ==
    IF /\ Falsy(req.body, "vehicleNO") /\ Falsy(req.body, "vehicleType")
       /\ Falsy(req.body, "transmissionType") /\ Falsy(req.body, "fuelType")
       /\ ~Has(req.body, "availability") /\ ~Has(req.body, "studentCnt")
    THEN Respond(req, 400, "At least one field is required to update")
    ELSE Await(req, "updateVehicle:Vehicle.findOne({vehicleID})")

\* lines 392-402: not found; a changed number is looked up first
UpdateVehicleExistingFound(req, existingVehicle) ==
    IF existingVehicle = Null
    THEN Respond(req, 404, "Vehicle not found")
    ELSE IF ~Falsy(req.body, "vehicleNO")
            /\ req.body.vehicleNO # The(existingVehicle).vehicleNO
    THEN Await(req, "updateVehicle:Vehicle.findOne({vehicleNO})")
    ELSE Await(req, "updateVehicle:Vehicle.findOneAndUpdate")

\* lines 402-409
UpdateVehicleDuplicateFound(req, duplicateVehicle) ==
    IF duplicateVehicle # Null
    THEN Respond(req, 400, "Vehicle with this number already exists")
    ELSE Await(req, "updateVehicle:Vehicle.findOneAndUpdate")

\* lines 414-421: the truthy strings and the defined availability and studentCnt
VehicleUpdateData(d, body) ==
    [k \in DOMAIN d |->
        IF k \in {"vehicleNO", "vehicleType", "transmissionType", "fuelType"}
        THEN (IF Falsy(body, k) THEN d[k] ELSE body[k])
        ELSE IF k \in {"availability", "studentCnt"} /\ Has(body, k) THEN body[k]
        ELSE d[k]]

VehicleUpdateFind(r) ==
    /\ reqs[r].pc = "updateVehicle:Vehicle.findOne({vehicleID})"
    /\ \E existingVehicle \in FindOne({d \in vehicles : d.vehicleID = reqs[r].params.id}) :
          reqs' = [reqs EXCEPT ![r] = UpdateVehicleExistingFound(@, existingVehicle)]
    /\ UNCHANGED store

VehicleUpdateFindDuplicate(r) ==
    /\ reqs[r].pc = "updateVehicle:Vehicle.findOne({vehicleNO})"
    /\ \E duplicateVehicle \in
             FindOne({d \in vehicles : d.vehicleNO = reqs[r].body.vehicleNO}) :
          reqs' = [reqs EXCEPT ![r] = UpdateVehicleDuplicateFound(@, duplicateVehicle)]
    /\ UNCHANGED store

\* lines 412-429
VehicleUpdateWrite(r) ==
    /\ reqs[r].pc = "updateVehicle:Vehicle.findOneAndUpdate"
    /\ vehicles' = {IF d.vehicleID = reqs[r].params.id
                    THEN VehicleUpdateData(d, reqs[r].body) ELSE d : d \in vehicles}
    /\ reqs' = [reqs EXCEPT ![r] = Respond(@, 200, "Vehicle updated successfully")]
    /\ UNCHANGED <<users, sessions, enrollments, counter, instructors, nextOid, nextUuid>>

(* ============================ deleteVehicle ============================ *)
\* lines 445-450
deleteVehicle(req) == Await(req, "deleteVehicle:Vehicle.findOne")

\* lines 450-457
DeleteVehicleFound(req, vehicle) ==
    IF vehicle = Null
    THEN Respond(req, 404, "Vehicle not found")
    ELSE Await(req, "deleteVehicle:Vehicle.findOneAndDelete")

VehicleDeleteFind(r) ==
    /\ reqs[r].pc = "deleteVehicle:Vehicle.findOne"
    /\ \E vehicle \in FindOne({d \in vehicles : d.vehicleID = reqs[r].params.id}) :
          reqs' = [reqs EXCEPT ![r] = DeleteVehicleFound(@, vehicle)]
    /\ UNCHANGED store

\* lines 459-464
VehicleDeleteRemove(r) ==
    /\ reqs[r].pc = "deleteVehicle:Vehicle.findOneAndDelete"
    /\ vehicles' = {d \in vehicles : d.vehicleID # reqs[r].params.id}
    /\ reqs' = [reqs EXCEPT ![r] = Respond(@, 200, "Vehicle deleted successfully")]
    /\ UNCHANGED <<users, sessions, enrollments, counter, instructors, nextOid, nextUuid>>

(* ============== getAllEnrollments and getEnrollmentStats =============== *)
getAllEnrollments(req) == Await(req, "getAllEnrollments:EnrollPTS.find")
getEnrollmentStats(req) == Await(req, "getEnrollmentStats:EnrollPTS.aggregate")

\* enrollPTSController.js lines 104-110: 200 with the documents (no message)
GetAllFind(r) ==
    /\ reqs[r].pc = "getAllEnrollments:EnrollPTS.find"
    /\ reqs' = [reqs EXCEPT ![r] = Respond(@, 200, "")]
    /\ UNCHANGED store

\* enrollPTSController.js lines 356-378: 200 with the counts (no message)
GetStatsAggregate(r) ==
    /\ reqs[r].pc = "getEnrollmentStats:EnrollPTS.aggregate"
    /\ reqs' = [reqs EXCEPT ![r] = Respond(@, 200, "")]
    /\ UNCHANGED store

(* ============================= the router ============================== *)
\* the handler a route ends in: its synchronous start, up to the first await
Handler(route, req) ==
    CASE route = "enrollStudent"          -> enrollStudent(req)
      [] route = "getAllEnrollments"      -> getAllEnrollments(req)
      [] route = "getEnrollmentStats"     -> getEnrollmentStats(req)
      [] route = "cancelEnrollment"       -> cancelEnrollment(req)
      [] route = "updateEnrollmentStatus" -> updateEnrollmentStatus(req)
      [] route = "createPhysicalTraining" -> createPhysicalTraining(req)
      [] route = "updatePhysicalTraining" -> updatePhysicalTraining(req)
      [] route = "deletePhysicalTraining" -> deletePhysicalTraining(req)
      [] route = "updateSessionStatus"    -> updateSessionStatus(req)
      [] route = "register"               -> register(req)
      [] route = "login"                  -> login(req)
      [] route = "createVehicle"          -> createVehicle(req)
      [] route = "updateVehicle"          -> updateVehicle(req)
      [] route = "deleteVehicle"          -> deleteVehicle(req)

\* express dispatches a request: the route's middleware, then its handler
Dispatch(req) ==
    LET gated == RunGates(Gates(req.route), req) IN
    IF gated.pc = "done" THEN gated ELSE Handler(req.route, gated)

\* a request arrives on a free slot
Arrive(r, route, cred, input) ==
    /\ reqs[r].pc = "idle"
    /\ reqs' = [reqs EXCEPT ![r] =
                   Dispatch([IdleReq EXCEPT !.pc = "gates", !.route = route,
                                            !.cookie = cred.cookie,
                                            !.authorization = cred.authorization,
                                            !.params = input.params, !.body = input.body])]
    /\ UNCHANGED store

\* the response has been sent and the request object is dropped
Finish(r) ==
    /\ reqs[r].pc = "done"
    /\ reqs' = [reqs EXCEPT ![r] = IdleReq]
    /\ UNCHANGED store

(* ----------------------------- request inputs -------------------------- *)
Input(params, body) == [params |-> params, body |-> body]
Bearer(token) == [cookie |-> Null, authorization |-> Some(<<"Bearer", token>>)]
Cookie(token) == [cookie |-> Some(token), authorization |-> Null]
NoCredential == [cookie |-> Null, authorization |-> Null]
Request(route, cred, input) == [route |-> route, cred |-> cred, input |-> input]

SessionParams == {[id |-> s] : s \in SessionIdInputs}
FullBody(vehicleID, instructorID, maxCount) ==
    [date |-> "d", time |-> "t", location |-> "l", vehicleID |-> vehicleID,
     instructorID |-> instructorID, maxCount |-> maxCount]

CancelInputs == {Input([id |-> o], <<>>) : o \in 1..MaxOid}
\* update bodies: a lowered maxCount, a currentCount written directly (with the
\* vehicle and instructor references re-stated), a currentCount above maxCount
UpdateBodies ==
    {[maxCount |-> 0],
     [vehicleID |-> "v1", instructorID |-> "i1", currentCount |-> 0],
     [currentCount |-> MaxCap + 1]}
DeleteInputs == {Input(p, <<>>) : p \in SessionParams}
RegisterInputs == {Input(<<>>, [email |-> e]) : e \in Emails}

\* the requests of the session registry and the enrollment ledger, each with a
\* credential that passes the gates of its route
RegistryRequests ==
    {Request("enrollStudent", Bearer(StudentToken(u)), Input(<<>>, [sessionID |-> s])) :
        u \in UserIds, s \in SessionIdInputs}
    \cup {Request("cancelEnrollment", Bearer(t), i) :
             t \in {StudentToken(u) : u \in UserIds} \cup {AdminToken}, i \in CancelInputs}
    \cup {Request("createPhysicalTraining", Bearer(InstructorToken),
                  Input(<<>>, FullBody("v1", "i1", m))) : m \in 1..MaxCap}
    \cup {Request("updatePhysicalTraining", Bearer(InstructorToken), Input(p, b)) :
             p \in SessionParams,
             b \in UpdateBodies}
    \cup {Request("updateSessionStatus", Bearer(InstructorToken), Input(p, [status |-> st])) :
             p \in SessionParams, st \in {"pending", "completed"}}
    \cup {Request("deletePhysicalTraining", Bearer(AdminToken), i) : i \in DeleteInputs}

\* the requests in flight on a route
InFlight(route) == {r \in ReqIds : reqs[r].route = route /\ reqs[r].pc \notin {"idle", "done"}}

\* the model's supply of identifiers is finite: a request that would take one
\* arrives only while one is left for it (no request is ever held up half way)
Admissible(route) ==
    CASE route = "createPhysicalTraining" -> counter + Cardinality(InFlight(route)) < MaxSessions
      [] route = "enrollStudent"          -> nextOid + Cardinality(InFlight(route)) <= MaxOid
      [] route = "register"               -> nextUuid + Cardinality(InFlight(route)) <= MaxUsers
      [] route = "createVehicle"          ->
             nextUuid + Cardinality(InFlight(route)) <= MaxVehicles
      [] OTHER                            -> TRUE

\* slots are interchangeable: a request takes the lowest free one
FreeSlot(r) == reqs[r].pc = "idle" /\ \A q \in ReqIds : q < r => reqs[q].pc # "idle"

(* ------------------------------ the system ----------------------------- *)
Init ==
    /\ users = {[userID |-> u, email |-> EmailOf(u), isStudent |-> TRUE] : u \in UserIds}
    /\ sessions = {}
    /\ enrollments = {}
    /\ counter = 0
    /\ vehicles = Fleet
    /\ instructors = InstructorIds
    /\ nextOid = 1
    /\ nextUuid = MaxUsers + 1
    /\ reqs = [r \in ReqIds |-> IdleReq]

RegistryArrive(r) ==
    \E q \in RegistryRequests :
        FreeSlot(r) /\ Admissible(q.route) /\ Arrive(r, q.route, q.cred, q.input)

Step(r) ==
    \/ EnrollFindUser(r) \/ EnrollFindSession(r) \/ EnrollFindExisting(r)
    \/ EnrollSave(r) \/ EnrollIncrement(r)
    \/ CancelFindEnrollment(r) \/ CancelFindSession(r) \/ CancelDelete(r) \/ CancelDecrement(r)
    \/ CreateFindVehicle(r) \/ CreateFindInstructor(r) \/ GetNextSequenceValue(r) \/ CreateSave(r)
    \/ UpdateFindSession(r) \/ UpdateFindVehicle(r) \/ UpdateFindInstructor(r) \/ UpdateWrite(r)
    \/ StatusFindSession(r) \/ StatusWrite(r)
    \/ DeleteFindSession(r) \/ DeleteRemove(r)
    \/ Finish(r)

Next == \E r \in ReqIds : RegistryArrive(r) \/ Step(r)

Spec == Init /\ [][Next]_vars

(* ------------------- the token and role gates alone -------------------- *)
\* every credential a request may present: none, a cookie, a header with or
\* without a scheme, and a cookie together with a header
Credentials ==
    {NoCredential}
    \cup {Bearer(t) : t \in Tokens} \cup {Cookie(t) : t \in Tokens}
    \cup {[cookie |-> Null, authorization |-> Some(<<AdminToken>>)],
          [cookie |-> Some(ForgedToken), authorization |-> Some(<<"Bearer", AdminToken>>)],
          [cookie |-> Some(AdminToken), authorization |-> Some(<<"Bearer", ExpiredToken>>)]}

\* every guarded route, under every credential, with one input each
GuardedRequests ==
    {Request(route, c, Input(p, <<>>)) :
        route \in {"getAllEnrollments", "getEnrollmentStats"}, c \in Credentials, p \in {<<>>}}
    \cup {Request("deletePhysicalTraining", c, i) : c \in Credentials, i \in DeleteInputs}
    \cup {Request("cancelEnrollment", c, i) : c \in Credentials, i \in CancelInputs}
    \cup {Request("enrollStudent", c, Input(<<>>, [sessionID |-> s])) :
             c \in Credentials, s \in SessionIdInputs}
    \cup {Request("createPhysicalTraining", c, Input(<<>>, FullBody("v1", "i1", 1))) :
             c \in Credentials}
    \cup {Request("updatePhysicalTraining", c, Input(p, b)) :
             c \in Credentials, p \in SessionParams,
             b \in {[vehicleID |-> v, instructorID |-> i, currentCount |-> 0] :
                       v \in {"v1", "v?"}, i \in {"i1", "i?"}}}
    \cup {Request("updateSessionStatus", c, Input(p, [status |-> "completed"])) :
             c \in Credentials, p \in SessionParams}

\* one request at a time
Quiet == \A q \in ReqIds : reqs[q].pc = "idle"

GuardedArrive(r) ==
    \E q \in GuardedRequests :
        Quiet /\ FreeSlot(r) /\ Admissible(q.route) /\ Arrive(r, q.route, q.cred, q.input)

AuthNext == \E r \in ReqIds : GuardedArrive(r) \/ Step(r) \/ GetAllFind(r) \/ GetStatsAggregate(r)

AuthSpec == Init /\ [][AuthNext]_vars

(* ---------------------------- the accounts ----------------------------- *)
\* a fresh deployment: no account yet
AccountInit ==
    /\ users = {}
    /\ sessions = {}
    /\ enrollments = {}
    /\ counter = 0
    /\ vehicles = Fleet
    /\ instructors = InstructorIds
    /\ nextOid = 1
    /\ nextUuid = 1
    /\ reqs = [r \in ReqIds |-> IdleReq]

AccountRequests ==
    {Request("register", c, i) : c \in {NoCredential, Cookie(PlainToken)}, i \in RegisterInputs}
    \cup {Request("register", NoCredential, Input(<<>>, [email |-> e, isStudent |-> FALSE])) :
             e \in Emails}

AccountArrive(r) ==
    \E q \in AccountRequests :
        FreeSlot(r) /\ Admissible(q.route) /\ Arrive(r, q.route, q.cred, q.input)

AccountNext ==
    \E r \in ReqIds : AccountArrive(r) \/ RegisterFindUser(r) \/ RegisterSave(r) \/ Finish(r)

AccountSpec == AccountInit /\ [][AccountNext]_vars

(* ------------- the tokens that register and login hand out ------------ *)
\* the tokens carried by the responses still held
IssuedTokens == {The(reqs[q].res.token) : q \in {p \in ReqIds : reqs[p].res.token # Null}}

\* register and login requests, and enroll requests presenting an issued token
IssueRequests ==
    {Request("register", NoCredential, i) : i \in RegisterInputs}
    \cup {Request("register", NoCredential, Input(<<>>, [email |-> e, isStudent |-> FALSE])) :
             e \in Emails}
    \cup {Request("login", NoCredential, Input(<<>>, b)) :
             b \in {[email |-> e, password |-> pw] :
                      e \in Emails, pw \in {RegisteredPassword, "wrong"}}
                   \cup {[email |-> e] : e \in Emails}}
    \cup {Request("enrollStudent", c, Input(<<>>, [sessionID |-> SessionIdOf(1)])) :
             c \in {Bearer(t) : t \in IssuedTokens} \cup {Cookie(t) : t \in IssuedTokens}}

IssueArrive(r) ==
    \E q \in IssueRequests :
        FreeSlot(r) /\ Admissible(q.route) /\ Arrive(r, q.route, q.cred, q.input)

IssueNext ==
    \E r \in ReqIds :
        \/ IssueArrive(r)
        \/ RegisterFindUser(r) \/ RegisterSave(r)
        \/ LoginFindUser(r) \/ LoginCompare(r)
        \/ Finish(r)

IssueSpec == AccountInit /\ [][IssueNext]_vars

(* ------------- store calls that fail, and a server that stops --------- *)
\* enrollStudent lines 77-94: the awaited findOneAndUpdate rejects (the store is
\* unreachable, the write times out) and the catch block answers 500
EnrollIncrementFails(r) ==
    /\ reqs[r].pc = "enrollStudent:PhysicalTraining.findOneAndUpdate"
    /\ reqs' = [reqs EXCEPT ![r] = Respond(@, 500, "Failed to enroll in session")]
    /\ UNCHANGED store

\* cancelEnrollment lines 283-301: the same for the decrement
CancelDecrementFails(r) ==
    /\ reqs[r].pc = "cancelEnrollment:PhysicalTraining.findOneAndUpdate"
    /\ reqs' = [reqs EXCEPT ![r] = Respond(@, 500, "Failed to cancel enrollment")]
    /\ UNCHANGED store

\* the server process stops and is started again: the requests in flight are
\* gone, the store keeps what was written
Crash ==
    /\ \E r \in ReqIds : reqs[r].pc \notin {"idle", "done"}
    /\ reqs' = [r \in ReqIds |-> IdleReq]
    /\ UNCHANGED store

\* create, enroll and cancel requests, one at a time
FaultRequests ==
    {Request("createPhysicalTraining", Bearer(InstructorToken),
             Input(<<>>, FullBody("v1", "i1", m))) : m \in 1..MaxCap}
    \cup {Request("enrollStudent", Bearer(StudentToken(u)), Input(<<>>, [sessionID |-> s])) :
             u \in UserIds, s \in SessionIdInputs}
    \cup {Request("cancelEnrollment", Bearer(t), i) :
             t \in {StudentToken(u) : u \in UserIds} \cup {AdminToken}, i \in CancelInputs}

FaultArrive(r) ==
    \E q \in FaultRequests :
        Quiet /\ FreeSlot(r) /\ Admissible(q.route) /\ Arrive(r, q.route, q.cred, q.input)

\* the same requests with every store call succeeding
SoundNext ==
    \E r \in ReqIds :
        \/ FaultArrive(r)
        \/ CreateFindVehicle(r) \/ CreateFindInstructor(r) \/ GetNextSequenceValue(r)
        \/ CreateSave(r)
        \/ EnrollFindUser(r) \/ EnrollFindSession(r) \/ EnrollFindExisting(r)
        \/ EnrollSave(r) \/ EnrollIncrement(r)
        \/ CancelFindEnrollment(r) \/ CancelFindSession(r) \/ CancelDelete(r)
        \/ CancelDecrement(r)
        \/ Finish(r)

FaultNext ==
    \/ SoundNext
    \/ \E r \in ReqIds : EnrollIncrementFails(r) \/ CancelDecrementFails(r)
    \/ Crash

FaultSpec == Init /\ [][FaultNext]_vars

(* ----------------- any store call of any handler failing --------------- *)
\* the message of each handler's catch block
FailureMessage(route) ==
    CASE route = "enrollStudent"          -> "Failed to enroll in session"
      [] route = "getAllEnrollments"      -> "Failed to retrieve enrollments"
      [] route = "getEnrollmentStats"     -> "Failed to retrieve enrollment statistics"
      [] route = "cancelEnrollment"       -> "Failed to cancel enrollment"
      [] route = "updateEnrollmentStatus" -> "Failed to update enrollment status"
      [] route = "createPhysicalTraining" -> "Failed to create physical training session"
      [] route = "updatePhysicalTraining" -> "Failed to update physical training session"
      [] route = "deletePhysicalTraining" -> "Failed to delete physical training session"
      [] route = "updateSessionStatus"    -> "Failed to update session status"
      [] route = "register"               -> "Registration failed"
      [] route = "login"                  -> "Login failed"
      [] route = "createVehicle"          -> "Failed to create vehicle"
      [] route = "updateVehicle"          -> "Failed to update vehicle"
      [] route = "deleteVehicle"          -> "Failed to delete vehicle"

\* StoreCallFailed without the try/catch: the rejection leaves the handler and
\* the request is never answered
StoreCallFailedUncaught(req) == [req EXCEPT !.pc = "unhandledRejection"]

\* the catch block of a handler: the rejection of an awaited call is answered
\* 500 with the handler's message, and the handler is over
StoreCallFailed(req) == Respond(req, 500, FailureMessage(req.route))

\* the store call a request awaits rejects; nothing is written
StoreCallFails(r) ==
    /\ reqs[r].pc \notin {"idle", "done", "unhandledRejection"}
    /\ reqs' = [reqs EXCEPT ![r] = StoreCallFailed(@)]
    /\ UNCHANGED store

\* the requests of the registry, one at a time
CaughtArrive(r) ==
    \E q \in RegistryRequests :
        Quiet /\ FreeSlot(r) /\ Admissible(q.route) /\ Arrive(r, q.route, q.cred, q.input)

CaughtNext == \E r \in ReqIds : CaughtArrive(r) \/ Step(r) \/ StoreCallFails(r)

CaughtSpec == Init /\ [][CaughtNext]_vars

(* ------------------------- creating sessions --------------------------- *)
\* sessions a run may create
MaxCreates == 2

\* values the counter may stand at when a run starts (sessions created up to
\* then have been deleted again)
CounterSeeds == {0, 8, 98, 998, 9998}

\* a full create body with one required field left out
Without(body, key) == [k \in DOMAIN body \ {key} |-> body[k]]

CreateBodies ==
    {FullBody(v, i, mc) : v \in {"v1", "v?"}, i \in {"i1", "i?"}, mc \in 0..MaxCap}
    \cup {Without(FullBody("v1", "i1", 1), k) :
             k \in {"date", "time", "location", "vehicleID", "instructorID", "maxCount"}}
    \cup {[FullBody("v1", "i1", 1) EXCEPT !.location = ""]}

CreateInit ==
    /\ users = {}
    /\ sessions = {}
    /\ enrollments = {}
    /\ counter \in CounterSeeds
    /\ vehicles = Fleet
    /\ instructors = InstructorIds
    /\ nextOid = 1
    /\ nextUuid = 1
    /\ reqs = [r \in ReqIds |-> IdleReq]

CreateArrive(r) ==
    \E body \in CreateBodies :
        /\ FreeSlot(r)
        /\ Cardinality(sessions) + Cardinality(InFlight("createPhysicalTraining")) < MaxCreates
        /\ Arrive(r, "createPhysicalTraining", Bearer(InstructorToken), Input(<<>>, body))

CreateNext ==
    \E r \in ReqIds :
        \/ CreateArrive(r)
        \/ CreateFindVehicle(r) \/ CreateFindInstructor(r) \/ GetNextSequenceValue(r)
        \/ CreateSave(r)
        \/ Finish(r)

CreateSpec == CreateInit /\ [][CreateNext]_vars

(* ------------------------- updating a session -------------------------- *)
\* update bodies: counts within and beyond the limits, statuses allowed, not
\* allowed and empty, references that resolve and that do not
UpdateSpecBodies ==
    {[currentCount |-> c] : c \in 0..(MaxCap + 1)}
    \cup {[maxCount |-> mc, currentCount |-> c] : mc \in 0..MaxCap, c \in 0..(MaxCap + 1)}
    \cup {[maxCount |-> mc] : mc \in 0..MaxCap}
    \cup {[status |-> st] : st \in {"completed", "cancelled", ""}}
    \cup {[status |-> "cancelled", currentCount |-> 0],
          [status |-> "completed", currentCount |-> MaxCap + 1],
          [vehicleID |-> "v1", currentCount |-> MaxCap + 1],
          [vehicleID |-> "v?", currentCount |-> MaxCap + 1],
          [instructorID |-> "i?", status |-> "cancelled"],
          [vehicleID |-> "v1", instructorID |-> "i1", status |-> "cancelled"],
          [vehicleID |-> "v1", instructorID |-> "i1", currentCount |-> MaxCap]}

\* the session of the first create, some seats taken, and no request yet
UpdateInit ==
    \E mc \in 0..MaxCap : \E c \in 0..mc :
        /\ users = {[userID |-> u, email |-> EmailOf(u), isStudent |-> TRUE] : u \in UserIds}
        /\ sessions = {[sessionID |-> SessionIdOf(1), vehicleID |-> "v1", instructorID |-> "i1",
                        maxCount |-> mc, currentCount |-> c, status |-> "pending"]}
        /\ enrollments = {}
        /\ counter = 1
        /\ vehicles = Fleet
        /\ instructors = InstructorIds
        /\ nextOid = 1
        /\ nextUuid = MaxUsers + 1
        /\ reqs = [r \in ReqIds |-> IdleReq]

\* an update of the stored session or of one that is not stored
UpdateArrive(r) ==
    \E body \in UpdateSpecBodies, id \in {SessionIdOf(1), SessionIdOf(2)} :
        /\ FreeSlot(r)
        /\ Arrive(r, "updatePhysicalTraining", Bearer(PlainToken), Input([id |-> id], body))

UpdateNext ==
    \E r \in ReqIds :
        \/ UpdateArrive(r)
        \/ UpdateFindSession(r) \/ UpdateFindVehicle(r) \/ UpdateFindInstructor(r)
        \/ UpdateWrite(r)
        \/ Finish(r)

UpdateSpec == UpdateInit /\ [][UpdateNext]_vars

(* ---------------- the status of an enrollment being set ---------------- *)
\* one pending session with one seat, taken by user 1, and no request yet
EnrollStatusInit ==
    /\ users = {[userID |-> u, email |-> EmailOf(u), isStudent |-> TRUE] : u \in UserIds}
    /\ sessions = {[sessionID |-> SessionIdOf(1), vehicleID |-> "v1", instructorID |-> "i1",
                    maxCount |-> 1, currentCount |-> 1, status |-> "pending"]}
    /\ enrollments = {[_id |-> 1, userID |-> 1, sessionID |-> SessionIdOf(1),
                       status |-> "pending"]}
    /\ counter = 1
    /\ vehicles = Fleet
    /\ instructors = InstructorIds
    /\ nextOid = 2
    /\ nextUuid = MaxUsers + 1
    /\ reqs = [r \in ReqIds |-> IdleReq]

\* PATCH /api/enroll-pts/:id under every kind of token and with every kind of
\* body, and the enrolled user or an admin cancelling
EnrollStatusRequests ==
    {Request("updateEnrollmentStatus", c, Input([id |-> o], b)) :
        c \in {NoCredential} \cup {Bearer(t) : t \in Tokens},
        o \in 1..MaxOid,
        b \in {[status |-> st] : st \in {"pending", "completed", "absent", "cancelled"}}
              \cup {<<>>}}
    \cup {Request("cancelEnrollment", Bearer(t), Input([id |-> 1], <<>>)) :
             t \in {StudentToken(1), AdminToken}}

EnrollStatusArrive(r) ==
    \E q \in EnrollStatusRequests :
        FreeSlot(r) /\ Arrive(r, q.route, q.cred, q.input)

EnrollStatusNext ==
    \E r \in ReqIds :
        \/ EnrollStatusArrive(r)
        \/ EnrollStatusFind(r) \/ EnrollStatusSave(r)
        \/ CancelFindEnrollment(r) \/ CancelFindSession(r) \/ CancelDelete(r)
        \/ CancelDecrement(r)
        \/ Finish(r)

EnrollStatusSpec == EnrollStatusInit /\ [][EnrollStatusNext]_vars

(* ----------------------- the vehicles being written -------------------- *)
\* the server after start-up, one vehicle stored
VehicleInit ==
    /\ users = {[userID |-> u, email |-> EmailOf(u), isStudent |-> TRUE] : u \in UserIds}
    /\ sessions = {}
    /\ enrollments = {}
    /\ counter = 0
    /\ vehicles = Fleet
    /\ instructors = InstructorIds
    /\ nextOid = 1
    /\ nextUuid = 1
    /\ reqs = [r \in ReqIds |-> IdleReq]

VehicleBody(vehicleNO) ==
    [vehicleNO |-> vehicleNO, vehicleType |-> "van", transmissionType |-> "auto",
     fuelType |-> "diesel", availability |-> TRUE, studentCnt |-> 0]

\* POST, PUT and DELETE on /api/vehicles without a token, with an expired one,
\* and with the token of a plain user, a student and an admin
VehicleRequests ==
    UNION {{Request("createVehicle", c, Input(<<>>, b)) :
               b \in {VehicleBody("CAB-0001"), VehicleBody("CAB-0002"),
                      [vehicleNO |-> "CAB-0002"]}}
           \cup {Request("updateVehicle", c, Input([id |-> v], b)) :
                    v \in {"v1", "v?"},
                    b \in {[vehicleNO |-> "CAB-0002"], [availability |-> FALSE], <<>>}}
           \cup {Request("updateVehicle", c,
                         Input([id |-> VehicleIdOf(1)], [vehicleNO |-> "CAB-0001"]))}
           \cup {Request("deleteVehicle", c, Input([id |-> v], <<>>)) : v \in {"v1", "v?"}} :
        c \in {NoCredential, Bearer(ExpiredToken), Bearer(PlainToken),
               Bearer(StudentToken(1)), Bearer(AdminToken)}}

VehicleArrive(r) ==
    \E q \in VehicleRequests :
        FreeSlot(r) /\ Admissible(q.route) /\ Arrive(r, q.route, q.cred, q.input)

VehicleNext ==
    \E r \in ReqIds :
        \/ VehicleArrive(r)
        \/ VehicleCreateFind(r) \/ VehicleCreateSave(r)
        \/ VehicleUpdateFind(r) \/ VehicleUpdateFindDuplicate(r) \/ VehicleUpdateWrite(r)
        \/ VehicleDeleteFind(r) \/ VehicleDeleteRemove(r)
        \/ Finish(r)

VehicleSpec == VehicleInit /\ [][VehicleNext]_vars

(* ---------------- two enrollments racing for the last slot ------------- *)
\* the request record of an enroll request by user u that has just arrived
ArrivedEnroll(u, cred) ==
    Dispatch([IdleReq EXCEPT !.pc = "gates", !.route = "enrollStudent",
                             !.cookie = cred.cookie, !.authorization = cred.authorization,
                             !.body = [sessionID |-> SessionIdOf(1)]])

\* one pending session with exactly one slot left (its m - 1 enrollments belong
\* to other users), and two enroll requests by two different users just arrived
RaceInit ==
    \E m \in 1..MaxCap, a \in UserIds, b \in UserIds :
    \E holder \in [1..(m - 1) -> UserIds \ {a, b}] :
    \E ca \in {Bearer(StudentToken(a)), Cookie(StudentToken(a))},
       cb \in {Bearer(StudentToken(b)), Cookie(StudentToken(b))} :
        /\ a # b
        /\ \A i, j \in 1..(m - 1) : i # j => holder[i] # holder[j]
        /\ users = {[userID |-> u, email |-> EmailOf(u), isStudent |-> TRUE] : u \in UserIds}
        /\ sessions = {[sessionID |-> SessionIdOf(1), vehicleID |-> "v1", instructorID |-> "i1",
                        maxCount |-> m, currentCount |-> m - 1, status |-> "pending"]}
        /\ enrollments = {[_id |-> o, userID |-> holder[o], sessionID |-> SessionIdOf(1),
                           status |-> "pending"] : o \in 1..(m - 1)}
        /\ counter = 1
        /\ vehicles = Fleet
        /\ instructors = InstructorIds
        /\ nextOid = m
        /\ nextUuid = MaxUsers + 1
        /\ reqs = [r \in ReqIds |-> IF r = 1 THEN ArrivedEnroll(a, ca)
                                    ELSE IF r = 2 THEN ArrivedEnroll(b, cb) ELSE IdleReq]

RaceNext ==
    \E r \in ReqIds :
        \/ EnrollFindUser(r) \/ EnrollFindSession(r) \/ EnrollFindExisting(r)
        \/ EnrollSave(r) \/ EnrollIncrement(r)

RaceSpec == RaceInit /\ [][RaceNext]_vars

(* --------------- one session with one seat, one request at a time ------ *)
\* the session the first create request stores, and an enrollment in it
TheSession(maxCount, currentCount) ==
    [sessionID |-> SessionIdOf(1), vehicleID |-> "v1", instructorID |-> "i1",
     maxCount |-> maxCount, currentCount |-> currentCount, status |-> "pending"]
Row(oid, u) == [_id |-> oid, userID |-> u, sessionID |-> SessionIdOf(1), status |-> "pending"]

EnrollBy(u) ==
    {Request("enrollStudent", c, Input(<<>>, [sessionID |-> SessionIdOf(1)])) :
        c \in {Bearer(StudentToken(u)), Cookie(StudentToken(u))}}

\* the requests of the scenario, by how far the store shows it has come: create
\* the session with maxCount 1; a first user enrolls; then another user tries to
\* enroll or the first enrollment is cancelled (by its owner or by an admin);
\* then a user enrolls
ScenarioRequests ==
    IF counter = 0
    THEN {Request("createPhysicalTraining", c, Input(<<>>, FullBody("v1", "i1", 1))) :
             c \in {Bearer(InstructorToken), Cookie(InstructorToken)}}
    ELSE IF nextOid = 1
    THEN UNION {EnrollBy(a) : a \in UserIds}
    ELSE IF nextOid = 2 /\ enrollments # {}
    THEN UNION {EnrollBy(b) : b \in {u \in UserIds : \A d \in enrollments : d.userID # u}}
         \cup UNION {{Request("cancelEnrollment", c, Input([id |-> d._id], <<>>)) :
                         c \in {Bearer(StudentToken(d.userID)), Cookie(StudentToken(d.userID)),
                                Bearer(AdminToken)}} : d \in enrollments}
    ELSE IF nextOid = 2
    THEN UNION {EnrollBy(b) : b \in UserIds}
    ELSE {}

ScenarioArrive(r) ==
    \E q \in ScenarioRequests :
        Quiet /\ FreeSlot(r) /\ Arrive(r, q.route, q.cred, q.input)

ScenarioNext ==
    \E r \in ReqIds :
        \/ ScenarioArrive(r)
        \/ CreateFindVehicle(r) \/ CreateFindInstructor(r) \/ GetNextSequenceValue(r)
        \/ CreateSave(r)
        \/ EnrollFindUser(r) \/ EnrollFindSession(r) \/ EnrollFindExisting(r)
        \/ EnrollSave(r) \/ EnrollIncrement(r)
        \/ CancelFindEnrollment(r) \/ CancelFindSession(r) \/ CancelDelete(r)
        \/ CancelDecrement(r)
        \/ Finish(r)

ScenarioSpec == Init /\ [][ScenarioNext]_vars

(* ======================================================================= *)
(*                               the claims                                *)
(* ======================================================================= *)
\* request r takes the step it is suspended on at pc
Takes(r, pc) == reqs[r].pc = pc /\ reqs'[r] # reqs[r]

\* the stored session a request addresses, if any
Stored(sessionID) == {d \in sessions : d.sessionID = sessionID}

StoredVehicleIds == {d.vehicleID : d \in vehicles}

Answered(req, code, message) ==
    req.pc = "done" /\ req.res.status = code /\ req.res.message = message

\* C1: in every reachable state every stored session has 0 <= currentCount <= maxCount
C1_CountWithinBounds ==
    \A d \in sessions : 0 <= d.currentCount /\ d.currentCount <= d.maxCount

\* C2: of two concurrent enroll requests by different users for the one remaining
\* slot, exactly one succeeds, the other is refused with 400, and currentCount
\* rises by exactly 1 (so it ends at maxCount)
C2_ExactlyOneEnrolls ==
    (reqs[1].pc = "done" /\ reqs[2].pc = "done") =>
        /\ \E w \in {1, 2} : reqs[w].res.status = 201 /\ reqs[3 - w].res.status = 400
        /\ \A d \in sessions : d.currentCount = d.maxCount

\* the enrollments of user u in session sessionID
RowsOf(u, sessionID) == {d \in enrollments : d.userID = u /\ d.sessionID = sessionID}

\* C3 as stated: an enroll request that reads a session with currentCount =
\* maxCount is answered 400 "Session is full" and changes nothing stored
C3_FullAnswersSessionIsFull ==
    [][\A r \in ReqIds :
          (/\ Takes(r, "enrollStudent:PhysicalTraining.findOne")
           /\ \E d \in Stored(reqs[r].body.sessionID) : d.currentCount = d.maxCount)
          => /\ Answered(reqs'[r], 400, "Session is full")
             /\ UNCHANGED store]_vars

\* C3: an enroll request that reads a session with currentCount = maxCount is
\* always refused with 400 and changes nothing stored, neither at that read nor
\* before it; the message is "Session is full" when the session is pending and
\* "Cannot enroll in a completed session" when it is not
C3_FullIsRefused ==
    [][\A r \in ReqIds :
          /\ (reqs[r].route = "enrollStudent" /\ reqs'[r] # reqs[r]
              /\ reqs[r].pc \in {"idle", "enrollStudent:User.findOne",
                                 "enrollStudent:PhysicalTraining.findOne"})
             => UNCHANGED store
          /\ Takes(r, "enrollStudent:PhysicalTraining.findOne")
             => \A d \in Stored(reqs[r].body.sessionID) :
                   d.currentCount = d.maxCount
                   => Answered(reqs'[r], 400,
                               IF d.status = "pending" THEN "Session is full"
                               ELSE "Cannot enroll in a completed session")]_vars

\* an enroll request has been refused for want of a seat in a pending, full session
C3_FullRefused ==
    \E r \in ReqIds :
        /\ reqs[r].route = "enrollStudent"
        /\ Answered(reqs[r], 400, "Session is full")
        /\ \E d \in Stored(reqs[r].body.sessionID) :
              d.status = "pending" /\ d.currentCount = d.maxCount /\ d.maxCount > 0

\* C4: a cancel that succeeds removes the enrollment and takes exactly 1 off the
\* currentCount of the session the enrollment names; when that session is not
\* stored the cancel still succeeds, removes only the enrollment, and changes
\* no session
C4_CancelRemovesAndDecrements ==
    [][\A r \in ReqIds :
          /\ Takes(r, "cancelEnrollment:PhysicalTraining.findOne")
             => /\ UNCHANGED store
                /\ Stored(The(reqs[r].enrollment).sessionID) = {}
                   => /\ reqs'[r].pc = "cancelEnrollment:EnrollPTS.findByIdAndDelete"
                      /\ reqs'[r].session = Null
                /\ \A d \in Stored(The(reqs[r].enrollment).sessionID) :
                      d.status # "completed"
                      => /\ reqs'[r].pc = "cancelEnrollment:EnrollPTS.findByIdAndDelete"
                         /\ reqs'[r].session = Some(d)
          /\ Takes(r, "cancelEnrollment:EnrollPTS.findByIdAndDelete")
             => /\ enrollments' = enrollments \ {The(reqs[r].enrollment)}
                /\ \A d \in enrollments' : d._id # reqs[r].params.id
                /\ sessions' = sessions
                /\ IF reqs[r].session = Null
                   THEN Answered(reqs'[r], 200, "Enrollment canceled successfully")
                   ELSE reqs'[r].pc = "cancelEnrollment:PhysicalTraining.findOneAndUpdate"
          /\ Takes(r, "cancelEnrollment:PhysicalTraining.findOneAndUpdate")
             => /\ Answered(reqs'[r], 200, "Enrollment canceled successfully")
                /\ enrollments' = enrollments
                /\ sessions' =
                     {IF d.sessionID = The(reqs[r].enrollment).sessionID
                      THEN [d EXCEPT !.currentCount = d.currentCount - 1] ELSE d :
                        d \in sessions}
          /\ (reqs[r].route = "cancelEnrollment" /\ reqs[r].pc # "done"
              /\ reqs'[r].pc = "done" /\ reqs'[r].res.status = 200)
             => reqs[r].pc \in
                  {"cancelEnrollment:PhysicalTraining.findOneAndUpdate"}
                  \cup (IF reqs[r].session = Null
                        THEN {"cancelEnrollment:EnrollPTS.findByIdAndDelete"} ELSE {})]_vars

\* a cancel of the only enrollment ever made has succeeded: the enrollment is
\* gone and the session, once at 1, is at 0
C4_Cancelled ==
    \E r \in ReqIds :
        /\ reqs[r].route = "cancelEnrollment"
        /\ Answered(reqs[r], 200, "Enrollment canceled successfully")
        /\ nextOid = 2 /\ enrollments = {}
        /\ \E d \in sessions : d.maxCount = 1 /\ d.currentCount = 0

\* C5 as stated: while user u has an enrollment in a stored session, an enroll
\* request by u for that session ends, whatever the session's count and status,
\* with "You are already enrolled in this session" and changes nothing stored
C5_DuplicateAnswersAlreadyEnrolled ==
    [][\A r \in ReqIds :
          (/\ reqs[r].route = "enrollStudent"
           /\ reqs[r].pc \in {"enrollStudent:PhysicalTraining.findOne",
                              "enrollStudent:EnrollPTS.findOne"}
           /\ RowsOf(The(reqs[r].user).id, reqs[r].body.sessionID) # {}
           /\ Stored(reqs[r].body.sessionID) # {}
           /\ reqs'[r].pc = "done")
          => /\ Answered(reqs'[r], 400, "You are already enrolled in this session")
             /\ UNCHANGED store]_vars

\* C5: while user u has an enrollment in a stored session, an enroll request by
\* u for that session is refused with 400 and changes nothing stored: with "You
\* are already enrolled in this session" once it reaches the duplicate test
\* (the session it read was pending and below maxCount), and with the status or
\* the capacity message when the session it reads is completed or full
C5_DuplicateIsRefused ==
    [][\A r \in ReqIds :
          (/\ reqs[r].route = "enrollStudent"
           /\ reqs'[r] # reqs[r]
           /\ RowsOf(The(reqs[r].user).id, reqs[r].body.sessionID) # {}
           /\ Stored(reqs[r].body.sessionID) # {})
          => /\ reqs[r].pc = "enrollStudent:PhysicalTraining.findOne"
                => /\ UNCHANGED store
                   /\ \A d \in Stored(reqs[r].body.sessionID) :
                         IF d.status # "pending"
                         THEN Answered(reqs'[r], 400, "Cannot enroll in a completed session")
                         ELSE IF d.currentCount >= d.maxCount
                         THEN Answered(reqs'[r], 400, "Session is full")
                         ELSE reqs'[r].pc = "enrollStudent:EnrollPTS.findOne"
             /\ reqs[r].pc = "enrollStudent:EnrollPTS.findOne"
                => /\ Answered(reqs'[r], 400, "You are already enrolled in this session")
                   /\ UNCHANGED store]_vars

\* a second enroll request of a user was refused as a duplicate, the enrollment
\* still in the ledger
C5_DuplicateRefused ==
    \E r \in ReqIds :
        /\ reqs[r].route = "enrollStudent"
        /\ Answered(reqs[r], 400, "You are already enrolled in this session")
        /\ RowsOf(The(reqs[r].user).id, reqs[r].body.sessionID) # {}
        /\ Stored(reqs[r].body.sessionID) # {}

\* C6: a delete request that reads a stored session with currentCount > 0 is
\* refused with 400 "Cannot delete session with enrolled users" and the session
\* stays stored; one that reads currentCount = 0 goes on to remove it, is
\* answered 200, and the session is no longer stored
C6_DeleteOnlyWhenEmpty ==
    [][\A r \in ReqIds :
          /\ Takes(r, "deletePhysicalTraining:PhysicalTraining.findOne")
             => /\ UNCHANGED store
                /\ \A d \in Stored(reqs[r].params.id) :
                      /\ d.currentCount > 0
                         => Answered(reqs'[r], 400, "Cannot delete session with enrolled users")
                      /\ d.currentCount = 0
                         => reqs'[r].pc = "deletePhysicalTraining:PhysicalTraining.findOneAndDelete"
          /\ Takes(r, "deletePhysicalTraining:PhysicalTraining.findOneAndDelete")
             => /\ Answered(reqs'[r], 200, "Physical training session deleted successfully")
                /\ sessions' = sessions \ Stored(reqs[r].params.id)
                /\ \A d \in sessions' : d.sessionID # reqs[r].params.id
                /\ UNCHANGED <<users, enrollments, counter>>
          /\ (reqs[r].route = "deletePhysicalTraining" /\ reqs[r].pc # "done"
              /\ reqs'[r].pc = "done" /\ reqs'[r].res.status = 200)
             => reqs[r].pc = "deletePhysicalTraining:PhysicalTraining.findOneAndDelete"]_vars

\* a delete was refused for a session with an enrolled user, which is still stored
C6_DeleteRefused ==
    \E r \in ReqIds :
        /\ reqs[r].route = "deletePhysicalTraining"
        /\ Answered(reqs[r], 400, "Cannot delete session with enrolled users")
        /\ \E d \in Stored(reqs[r].params.id) : d.currentCount > 0

\* C7: with one request at a time: the create with maxCount 1 is answered 201
\* and stores the session at currentCount 0; the first enroll is answered 201
\* and currentCount is 1; an enroll by another user is then answered 400
\* "Session is full" and changes nothing; the cancel of the first enrollment is
\* answered 200, the ledger is empty and currentCount is 0; the enroll that
\* follows is answered 201 and currentCount is 1 again
C7_ScenarioOutcomes ==
    \A r \in ReqIds :
        reqs[r].pc = "done" =>
            CASE reqs[r].route = "createPhysicalTraining" ->
                   /\ reqs[r].res.status = 201
                   /\ sessions = {TheSession(1, 0)} /\ enrollments = {}
              [] reqs[r].route = "cancelEnrollment" ->
                   /\ Answered(reqs[r], 200, "Enrollment canceled successfully")
                   /\ sessions = {TheSession(1, 0)} /\ enrollments = {}
              [] reqs[r].route = "enrollStudent" ->
                   LET u == The(reqs[r].user).id IN
                   IF enrollments = {Row(1, u)}
                   THEN reqs[r].res.status = 201 /\ sessions = {TheSession(1, 1)}
                   ELSE IF nextOid = 2
                   THEN /\ Answered(reqs[r], 400, "Session is full")
                        /\ sessions = {TheSession(1, 1)}
                        /\ \E a \in UserIds \ {u} : enrollments = {Row(1, a)}
                   ELSE /\ reqs[r].res.status = 201
                        /\ sessions = {TheSession(1, 1)}
                        /\ enrollments = {Row(2, u)}

\* the scenario has run to its end: the second enrollment ever made is the only
\* one in the ledger, and its request was answered 201
C7_ScenarioCompleted ==
    \E r \in ReqIds :
        /\ reqs[r].route = "enrollStudent"
        /\ reqs[r].pc = "done" /\ reqs[r].res.status = 201
        /\ nextOid = 3
        /\ enrollments = {Row(2, The(reqs[r].user).id)}
        /\ sessions = {TheSession(1, 1)}

AdminRoutes == {"deletePhysicalTraining", "getAllEnrollments", "getEnrollmentStats"}

\* the arriving request r presents a token that verifies
ValidToken(req) == TokenOf(req) # Null /\ JwtVerify(The(TokenOf(req))) # Null

\* C8: a request arriving on an admin-only route with a token that verifies and
\* whose payload has no true isAdmin is answered 403 by the gate: the handler
\* does not start and nothing stored changes
C8_AdminOnly ==
    [][\A r \in ReqIds :
          (/\ reqs[r].pc = "idle" /\ reqs'[r].pc # "idle"
           /\ reqs'[r].route \in AdminRoutes
           /\ ValidToken(reqs'[r])
           /\ ~The(JwtVerify(The(TokenOf(reqs'[r])))).isAdmin)
          => /\ Answered(reqs'[r], 403, "Access denied. Administrator role required.")
             /\ UNCHANGED store]_vars

\* a request with a valid token without isAdmin was turned away from an
\* admin-only route
C8_NonAdminTurnedAway ==
    \E r \in ReqIds :
        /\ reqs[r].route \in AdminRoutes
        /\ ValidToken(reqs[r])
        /\ ~The(JwtVerify(The(TokenOf(reqs[r])))).isAdmin
        /\ Answered(reqs[r], 403, "Access denied. Administrator role required.")

\* C9: a register request whose email pre-check runs while an account with that
\* email is stored is answered 400, carries no token, and stores no account
C9_DuplicateEmailRefused ==
    [][\A r \in ReqIds :
          (/\ Takes(r, "register:User.findOne")
           /\ \E d \in users : d.email = reqs[r].body.email)
          => /\ Answered(reqs'[r], 400, "User with this email or username already exists")
             /\ reqs'[r].res.token = Null
             /\ reqs'[r].newUser = Null
             /\ users' = users
             /\ nextUuid' = nextUuid]_vars

\* a register request was refused for an email that one stored account has
C9_SecondRegisterRefused ==
    \E r \in ReqIds :
        /\ reqs[r].route = "register"
        /\ Answered(reqs[r], 400, "User with this email or username already exists")
        /\ reqs[r].res.token = Null
        /\ Cardinality({d \in users : d.email = reqs[r].body.email}) = 1

\* C10: a request arriving on a route behind authenticate with no token (no
\* cookie, no second part of an Authorization header) is answered 401; one
\* whose token fails verification (wrong key or expired) is answered 403; in
\* both cases req.user stays unset, the handler does not start, and nothing
\* stored changes
C10_AuthenticateRejects ==
    [][\A r \in ReqIds :
          (/\ reqs[r].pc = "idle" /\ reqs'[r].pc # "idle"
           /\ Len(Gates(reqs'[r].route)) > 0
           /\ Head(Gates(reqs'[r].route)) = "authenticate")
          => /\ TokenOf(reqs'[r]) = Null
                => /\ Answered(reqs'[r], 401, "Authentication required. Please login.")
                   /\ reqs'[r].user = Null
                   /\ UNCHANGED store
             /\ (/\ TokenOf(reqs'[r]) # Null
                 /\ \/ The(TokenOf(reqs'[r])).key # JWT_SECRET
                    \/ The(TokenOf(reqs'[r])).expired)
                => /\ Answered(reqs'[r], 403, "Invalid or expired token. Please login again.")
                   /\ reqs'[r].user = Null
                   /\ UNCHANGED store]_vars

\* a request with an expired token was answered 403 with req.user unset
C10_ExpiredTokenRejected ==
    \E r \in ReqIds :
        /\ TokenOf(reqs[r]) # Null
        /\ The(TokenOf(reqs[r])).expired
        /\ Answered(reqs[r], 403, "Invalid or expired token. Please login again.")
        /\ reqs[r].user = Null

\* the stored account a token was issued to
AccountOf(token) == {d \in users : d.userID = token.payload.id}

\* C11: every token handed out by register or login carries the student flag of
\* the account it was issued to, and an enroll request that presents the token
\* of a student account is not turned away by the student role gate
C11_IssuedTokenCarriesRole ==
    /\ \A t \in IssuedTokens : \A d \in AccountOf(t) : t.payload.isStudent = d.isStudent
    /\ \A r \in ReqIds :
          (/\ reqs[r].route = "enrollStudent"
           /\ reqs[r].pc # "idle"
           /\ TokenOf(reqs[r]) # Null
           /\ \E d \in AccountOf(The(TokenOf(reqs[r]))) : d.isStudent)
          => ~Answered(reqs[r], 403, "Access denied. Student role required.")

\* C12: whenever no enroll or cancel request is in progress, a failed second
\* store call or a stopped server included, each session's currentCount is the
\* number of enrollments that name the session
C12_CountMatchesLedger ==
    (\A r \in ReqIds : reqs[r].route \in {"enrollStudent", "cancelEnrollment"}
                        => reqs[r].pc \in {"idle", "done"})
    => \A d \in sessions :
          d.currentCount = Cardinality({e \in enrollments : e.sessionID = d.sessionID})

\* C13: a step that changes the currentCount of a stored session is the
\* increment of an enroll request or the decrement of a cancel request; no
\* step of a session update request changes it
C13_CountChangedOnlyByLedger ==
    [][(\E d \in sessions : \E e \in sessions' :
           e.sessionID = d.sessionID /\ e.currentCount # d.currentCount)
       => \E r \in ReqIds :
             \/ Takes(r, "enrollStudent:PhysicalTraining.findOneAndUpdate")
             \/ Takes(r, "cancelEnrollment:PhysicalTraining.findOneAndUpdate")]_vars

\* the number a sequence of decimal digits writes
RECURSIVE NumberOf(_)
NumberOf(digits) ==
    IF digits = <<>> THEN 0
    ELSE 10 * NumberOf(SubSeq(digits, 1, Len(digits) - 1)) + digits[Len(digits)]

\* id is "PT" followed by the decimal digits of value, zero-padded to 4 digits
IsSessionIdFor(id, value) ==
    LET digits == SubSeq(id, 3, Len(id)) IN
    /\ Len(id) >= 6 /\ id[1] = "P" /\ id[2] = "T"
    /\ \A i \in 1..Len(digits) : digits[i] \in 0..9
    /\ NumberOf(digits) = value
    /\ Len(id) > 6 => digits[1] # 0

RequiredFields == {"date", "time", "location", "vehicleID", "instructorID", "maxCount"}

\* C14: a create request with a required field missing is answered 400, one
\* whose vehicle or instructor is not stored is answered 404, and neither
\* stores a session nor advances the counter; a create request that passes
\* those tests takes the next counter value, and stores, answered 201, a new
\* session whose identifier is "PT" and that value zero-padded to 4 digits,
\* not borne by any stored session, with currentCount 0 and status pending
C14_CreateMintsSession ==
    [][\A r \in ReqIds :
          /\ (reqs[r].pc = "idle" /\ reqs'[r].route = "createPhysicalTraining")
             => /\ UNCHANGED store
                /\ RequiredFields \ DOMAIN reqs'[r].body # {}
                   => Answered(reqs'[r], 400, "All required fields must be provided")
          /\ Takes(r, "createPhysicalTraining:Vehicle.findOne")
             => /\ UNCHANGED store
                /\ reqs[r].body.vehicleID \notin StoredVehicleIds
                   => Answered(reqs'[r], 404, "Vehicle not found")
          /\ Takes(r, "createPhysicalTraining:Instructor.findOne")
             => /\ UNCHANGED store
                /\ reqs[r].body.instructorID \notin instructors
                   => Answered(reqs'[r], 404, "Instructor not found")
          /\ Takes(r, "createPhysicalTraining:Counter.findOneAndUpdate")
             => /\ counter' = counter + 1
                /\ sessions' = sessions
                /\ reqs[r].body.vehicleID \in StoredVehicleIds
                /\ reqs[r].body.instructorID \in instructors
                /\ RequiredFields \subseteq DOMAIN reqs[r].body
                /\ IsSessionIdFor(The(reqs'[r].session).sessionID, counter')
          /\ Takes(r, "createPhysicalTraining:newSession.save")
             => /\ Answered(reqs'[r], 201, "Physical training session created successfully")
                /\ counter' = counter
                /\ \E d \in sessions' \ sessions :
                      /\ sessions' = sessions \cup {d}
                      /\ d = The(reqs[r].session)
                      /\ \E value \in 1..counter : IsSessionIdFor(d.sessionID, value)
                      /\ \A e \in sessions : e.sessionID # d.sessionID
                      /\ d.currentCount = 0 /\ d.status = "pending"
                      /\ d.maxCount = reqs[r].body.maxCount
          /\ (reqs[r].route = "createPhysicalTraining" /\ reqs[r].pc # "done"
              /\ reqs'[r].pc = "done" /\ reqs'[r].res.status = 201)
             => reqs[r].pc = "createPhysicalTraining:newSession.save"]_vars

\* a create was answered 201 and the session PT0999, minted from counter value
\* 999, is stored with currentCount 0 and status pending
C14_SessionMinted ==
    \E r \in ReqIds :
        /\ reqs[r].route = "createPhysicalTraining"
        /\ Answered(reqs[r], 201, "Physical training session created successfully")
        /\ counter = 999
        /\ \E d \in sessions :
              /\ d.sessionID = <<"P", "T", 0, 9, 9, 9>>
              /\ d.currentCount = 0 /\ d.status = "pending"

\* the body's status is supplied and is neither pending nor completed
StatusRefused(body) ==
    Has(body, "status") /\ body.status \notin {"pending", "completed", ""}

\* the body's currentCount exceeds the maxCount it supplies, or else that of session d
CountRefused(body, d) ==
    /\ Has(body, "currentCount")
    /\ body.currentCount > (IF Has(body, "maxCount") THEN body.maxCount ELSE d.maxCount)

\* the session an update request judges its body against: the one it is about
\* to read, or the one it has read
Judged(req) ==
    IF req.pc = "updatePhysicalTraining:PhysicalTraining.findOne"
    THEN Stored(req.params.id) ELSE req.session

C16_EnrollOnlyWhilePending ==
    [][/\ \A r \in ReqIds :
            /\ Takes(r, "enrollStudent:PhysicalTraining.findOne")
               => /\ UNCHANGED store
                  /\ \A d \in Stored(reqs[r].body.sessionID) :
                        IF d.status # "pending"
                        THEN Answered(reqs'[r], 400, "Cannot enroll in a completed session")
                        ELSE reqs'[r].pc # "done"
                             => /\ reqs'[r].session = Some(d)
                                /\ d.currentCount < d.maxCount
            /\ (reqs[r].route = "enrollStudent" /\ reqs'[r].route = "enrollStudent"
                /\ reqs[r].pc \in {"enrollStudent:EnrollPTS.findOne",
                                   "enrollStudent:enrollment.save"})
               => \/ reqs'[r].session = reqs[r].session
                  \/ reqs'[r].pc = "done"
            /\ Takes(r, "enrollStudent:enrollment.save")
               => \E s \in reqs[r].session :
                     /\ s.status = "pending" /\ s.currentCount < s.maxCount
                     /\ enrollments' = enrollments \cup
                          {[_id |-> The(reqs[r].enrollment)._id,
                            userID |-> The(reqs[r].user).id,
                            sessionID |-> s.sessionID, status |-> "pending"]}
       /\ ~(enrollments' \subseteq enrollments)
          => \E r \in ReqIds : Takes(r, "enrollStudent:enrollment.save")]_vars

\* an enroll request was refused because the stored session is completed
C16_CompletedRefused ==
    \E r \in ReqIds :
        /\ reqs[r].route = "enrollStudent"
        /\ Answered(reqs[r], 400, "Cannot enroll in a completed session")
        /\ \E d \in Stored(reqs[r].body.sessionID) : d.status = "completed"

\* C17: a cancel request that finds the enrollment, made with a token whose id
\* is not the enrollment's user and that has no admin flag, is answered 403
\* and changes nothing stored
C17_CancelByStrangerRefused ==
    [][\A r \in ReqIds :
          Takes(r, "cancelEnrollment:EnrollPTS.findById")
          => /\ UNCHANGED store
             /\ \A d \in enrollments :
                   (/\ d._id = reqs[r].params.id
                    /\ d.userID # The(reqs[r].user).id
                    /\ ~The(reqs[r].user).isAdmin)
                   => Answered(reqs'[r], 403, "Access denied")]_vars

\* a cancel by a user other than the enrolled one was answered 403 and the
\* enrollment is still in the ledger
C17_StrangerRefused ==
    \E r \in ReqIds :
        /\ reqs[r].route = "cancelEnrollment"
        /\ Answered(reqs[r], 403, "Access denied")
        /\ \E d \in enrollments :
              /\ d._id = reqs[r].params.id
              /\ d.userID # The(reqs[r].user).id
              /\ \E s \in Stored(d.sessionID) : s.currentCount = 1

\* C18: a cancel request by the enrolled user or an admin that reads the
\* enrollment's session as completed is answered 400 and changes nothing
\* stored; and no cancel removes an enrollment from the ledger while the
\* enrollment's session is stored as completed
C18_NoCancelWhileCompleted ==
    [][\A r \in ReqIds :
          /\ Takes(r, "cancelEnrollment:PhysicalTraining.findOne")
             => /\ UNCHANGED store
                /\ \A d \in Stored(The(reqs[r].enrollment).sessionID) :
                      d.status = "completed"
                      => Answered(reqs'[r], 400,
                                  "Cannot cancel enrollment for a completed session")
          /\ (Takes(r, "cancelEnrollment:EnrollPTS.findByIdAndDelete")
              /\ enrollments' # enrollments)
             => \A d \in Stored(The(reqs[r].enrollment).sessionID) :
                   d.status # "completed"]_vars

\* C19: a request on PATCH /api/enroll-pts/:id whose token verifies and whose
\* payload has neither a true isAdmin nor a true isInstructor is refused: no
\* step of it, from its arrival on, changes an enrollment or answers 200
C19_StatusOnlyByStaff ==
    [][\A r \in ReqIds :
          (/\ reqs'[r].route = "updateEnrollmentStatus"
           /\ reqs'[r] # reqs[r]
           /\ reqs'[r].user # Null
           /\ ~The(reqs'[r].user).isAdmin
           /\ ~The(reqs'[r].user).isInstructor)
          => /\ enrollments' = enrollments
             /\ reqs'[r].res.status # 200]_vars

VehicleWrites == {"createVehicle", "updateVehicle", "deleteVehicle"}

\* C20: a POST, PUT or DELETE request on /api/vehicles whose token verifies and
\* whose payload has no true isAdmin is refused: no step of it, from its arrival
\* on, changes the vehicle collection or answers 200 or 201
C20_VehiclesOnlyByAdmin ==
    [][\A r \in ReqIds :
          (/\ reqs'[r].route \in VehicleWrites
           /\ reqs'[r] # reqs[r]
           /\ reqs'[r].user # Null
           /\ ~The(reqs'[r].user).isAdmin)
          => /\ vehicles' = vehicles
             /\ reqs'[r].res.status \notin {200, 201}]_vars

SessionWrites == {"createPhysicalTraining", "updatePhysicalTraining"}

\* C21: a POST or PUT request on /api/physical-training whose token verifies
\* and whose payload has neither a true isAdmin nor a true isInstructor is
\* refused: no step of it, from its arrival on, changes the session collection
\* or the identifier counter, or answers 200 or 201
C21_SessionsOnlyByStaff ==
    [][\A r \in ReqIds :
          (/\ reqs'[r].route \in SessionWrites
           /\ reqs'[r] # reqs[r]
           /\ reqs'[r].user # Null
           /\ ~The(reqs'[r].user).isAdmin
           /\ ~The(reqs'[r].user).isInstructor)
          => /\ sessions' = sessions
             /\ counter' = counter
             /\ reqs'[r].res.status \notin {200, 201}]_vars

\* C22: a request inside a handler is always waiting on one store call; each of
\* its steps either moves it to another call or ends it with its one response,
\* which is then never replaced; and a step that answers 500 writes nothing and
\* carries the message of the handler's own catch block (for enroll and delete
\* the ones of enrollPTSController.js line 91 and physicalTrainingController.js
\* line 299)
C22_FailuresAnsweredOnce ==
    [][\A r \in ReqIds :
          /\ (reqs[r].pc \notin {"idle", "done"} /\ reqs'[r] # reqs[r])
             => /\ reqs'[r].pc \notin {"idle", "unhandledRejection", reqs[r].pc}
                /\ reqs'[r].route = reqs[r].route
                /\ reqs'[r].pc = "done" <=> reqs'[r].res # NoRes
                /\ reqs'[r].res.status = 500
                   => /\ UNCHANGED store
                      /\ reqs[r].route = "enrollStudent"
                         => reqs'[r].res.message = "Failed to enroll in session"
                      /\ reqs[r].route = "deletePhysicalTraining"
                         => reqs'[r].res.message = "Failed to delete physical training session"
                      /\ reqs'[r].res.message = FailureMessage(reqs[r].route)
          /\ (reqs[r].pc = "done" /\ reqs'[r] # reqs[r]) => reqs'[r] = IdleReq]_vars

\* an enroll request whose increment was rejected after its row was saved has
\* been answered 500
C22_EnrollFailedAfterSave ==
    \E r \in ReqIds :
        /\ Answered(reqs[r], 500, "Failed to enroll in session")
        /\ \E d \in enrollments :
              /\ d.userID = The(reqs[r].user).id
              /\ \E s \in Stored(d.sessionID) : s.currentCount = 0

\* C23: the ledger holds at most one enrollment row per (user, session) pair
C23_OneRowPerUserAndSession ==
    \A d \in enrollments : \A e \in enrollments :
        (d.userID = e.userID /\ d.sessionID = e.sessionID) => d = e

\* C24: no enrollment row references a session that is no longer stored
C24_NoOrphanedEnrollment ==
    \A d \in enrollments : Stored(d.sessionID) # {}

\* the number written in a session identifier
SessionNumber(id) == NumberOf(SubSeq(id, 3, Len(id)))

\* C25: the counter never decreases and changes only in the one step of a
\* create request that increments it and reads the new value; that value is
\* greater than the number of every session already stored and differs from
\* the value held by every other create in flight; and a create stores its
\* session under an identifier no stored session has
C25_CounterAtomicAndIncreasing ==
    [][/\ counter' >= counter
       /\ counter' # counter
          => \E r \in ReqIds : Takes(r, "createPhysicalTraining:Counter.findOneAndUpdate")
       /\ \A r \in ReqIds :
             /\ Takes(r, "createPhysicalTraining:Counter.findOneAndUpdate")
                => /\ counter' = counter + 1
                   /\ IsSessionIdFor(The(reqs'[r].session).sessionID, counter')
                   /\ \A d \in sessions : SessionNumber(d.sessionID) < counter'
                   /\ \A q \in ReqIds \ {r} :
                         reqs[q].session # Null
                         => The(reqs[q].session).sessionID
                               # The(reqs'[r].session).sessionID
             /\ Takes(r, "createPhysicalTraining:newSession.save")
                => /\ \A d \in sessions : d.sessionID # The(reqs[r].session).sessionID
                   /\ Cardinality(sessions') = Cardinality(sessions) + 1]_vars

\* two sessions are stored, created by two requests that were in flight
\* together or one after the other, under different identifiers
C25_TwoSessionsCreated ==
    /\ Cardinality(sessions) = 2
    /\ Cardinality({d.sessionID : d \in sessions}) = 2
    /\ \E d \in sessions : SessionNumber(d.sessionID) = counter

\* C26: one enrollment accounts for at most one decrement: the session that
\* started with one enrollment and currentCount 1 never has a negative
\* currentCount, and no two cancel requests for the same enrollment id are both
\* answered with success
C26_OneDecrementPerEnrollment ==
    /\ \A d \in sessions : d.currentCount >= 0
    /\ \A r \in ReqIds : \A q \in ReqIds \ {r} :
          ~(/\ Answered(reqs[r], 200, "Enrollment canceled successfully")
            /\ Answered(reqs[q], 200, "Enrollment canceled successfully")
            /\ reqs[r].params.id = reqs[q].params.id)

\* the rows of the ledger with everything but their status
Unmarked(rows) == {[_id |-> d._id, userID |-> d.userID, sessionID |-> d.sessionID] : d \in rows}

\* C27: an update-status request that passed the token gate with a status
\* missing or outside {pending, completed, absent} is answered 400; its findById
\* writes nothing; its save leaves the sessions, the other collections, the
\* number of rows and every field but status of every row as they were, leaves
\* every row other than the addressed one untouched, and the addressed row, if
\* stored, has the supplied status afterwards
C27_StatusUpdateTouchesOnlyStatus ==
    [][\A r \in ReqIds :
          /\ (/\ reqs[r].pc = "idle" /\ reqs'[r].route = "updateEnrollmentStatus"
              /\ reqs'[r].user # Null
              /\ (~Has(reqs'[r].body, "status")
                  \/ reqs'[r].body.status \notin {"pending", "completed", "absent"}))
             => /\ Answered(reqs'[r], 400,
                            "Valid status (pending/completed/absent) is required")
                /\ UNCHANGED store
          /\ Takes(r, "updateEnrollmentStatus:EnrollPTS.findById") => UNCHANGED store
          /\ Takes(r, "updateEnrollmentStatus:enrollment.save")
             => /\ UNCHANGED <<users, sessions, counter, vehicles, instructors,
                               nextOid, nextUuid>>
                /\ reqs[r].body.status \in {"pending", "completed", "absent"}
                /\ Cardinality(enrollments') = Cardinality(enrollments)
                /\ Unmarked(enrollments') = Unmarked(enrollments)
                /\ \A d \in enrollments : d._id # reqs[r].params.id => d \in enrollments'
                /\ \A e \in enrollments' :
                      e._id = reqs[r].params.id => e.status = reqs[r].body.status]_vars

\* an update-status request was answered 200 and the addressed row is now
\* absent, with its session's currentCount still 1
C27_MarkedAbsent ==
    \E r \in ReqIds :
        /\ Answered(reqs[r], 200, "Enrollment status updated to \"absent\"")
        /\ \E d \in enrollments :
              /\ d._id = reqs[r].params.id /\ d.status = "absent"
              /\ \E s \in Stored(d.sessionID) : s.currentCount = 1

\* C28: no two stored user accounts have the same email
C28_EmailsUnique ==
    \A d \in users : \A e \in users : d.email = e.email => d = e

\* C29: an update request that supplies maxCount and no currentCount never
\* leaves the session it writes with maxCount below currentCount: it is either
\* refused with nothing written, or the written session has
\* currentCount <= maxCount
C29_MaxCountNotBelowCurrentCount ==
    [][\A r \in ReqIds :
          (/\ reqs[r].route = "updatePhysicalTraining"
           /\ reqs'[r] # reqs[r]
           /\ Has(reqs[r].body, "maxCount")
           /\ ~Has(reqs[r].body, "currentCount"))
          => \A d \in sessions' :
                d.sessionID = reqs[r].params.id => d.currentCount <= d.maxCount]_vars

====
